---- MODULE Spec2Model ----
(***************************************************************************)
(* A model of httk's VASP interface (src/httk/iface/vasp_if.py).           *)
(*                                                                         *)
(* Text is modelled as a sequence of characters (one-character strings);   *)
(* a file is one such sequence with "\n" line terminators.  Every          *)
(* component of the interface has a specification of its own over the      *)
(* shared variables: SpecCodec (POSCAR reader and writers), SpecMag        *)
(* (magnetic enumerator), SpecPP (pseudopotential resolver), SpecKpt       *)
(* (k-point estimator), SpecOutcar (OUTCAR scan), SpecInfo (parse_outcar), *)
(* SpecResult (result assembler), SpecPrep (run preparer) and SpecVersion  *)
(* (version lookup of src/httk/config/config.py).                          *)
(***************************************************************************)
EXTENDS Integers, Sequences, FiniteSets, TLC

VARIABLES
    fileText,   \* codec: the content of the POSCAR file
    origin,     \* codec: who produced fileText, with the arguments it was given
    parsed,     \* codec: what poscar_to_strs returned for fileText
    ionlist,    \* magnetic enumerator: the argument of get_magnetizations
    maglevels,  \* magnetic enumerator: the (high, low) arguments
    magresult,  \* magnetic enumerator: the returned candidate list
    fs,         \* resolver: the pseudopotential library on disk
    cfg,        \* resolver: httk.cfg's [paths]/vasp_pseudolib
    env,        \* resolver: the process environment's VASP_PSEUDOLIB
    ppcall,     \* resolver: the arguments of the last get_pseudopotential call
    ppresult,   \* resolver: what that call returned or raised
    probes,     \* resolver: the paths given to os.path.exists, in order
    basis,      \* k-points: struct.uc_basis
    kpts,       \* k-points: the result of calculate_kpoints per density
    stream,     \* OUTCAR: the lines of the stream handed to OutcarReader
    reader,     \* OUTCAR: the attributes of the OutcarReader object
    outcar,     \* host parse: the text of the compressed OUTCAR
    calc_info,  \* host parse: what parse_outcar returned or raised
    rundir,     \* assembler: the calculation directory and the key files
    assembled,  \* assembler: the last call, its effects and what it returned
    job,        \* run preparer: the arguments and the pseudopotential library
    prepared,   \* run preparer: the files, handles and outcome of the run
    install,    \* version lookup: distdata.py, httk.cfg, .git and git itself
    version_data \* version lookup: what determine_version_data returned

codecVars == <<fileText, origin, parsed>>
magVars == <<ionlist, maglevels, magresult>>
ppVars == <<fs, cfg, env, ppcall, ppresult, probes>>
kptVars == <<basis, kpts>>
outcarVars == <<stream, reader>>
infoVars == <<outcar, calc_info>>
resultVars == <<rundir, assembled>>
prepVars == <<job, prepared>>
versionVars == <<install, version_data>>
laterVars == <<infoVars, resultVars, prepVars, versionVars>>
vars == <<codecVars, magVars, ppVars, kptVars, outcarVars, laterVars>>

(***************************************************************************)
(* Characters and Python's string primitives.                              *)
(***************************************************************************)
NL == "\n"
SP == " "

\* None for a value that is otherwise a character sequence.
None == <<"None">>

IsSpace(c) == c \in {SP, NL, "\t"}

Digits == <<"0", "1", "2", "3", "4", "5", "6", "7", "8", "9">>

DigitChars == {Digits[i] : i \in 1..Len(Digits)}

DigitVal(c) == (CHOOSE i \in 1..Len(Digits) : Digits[i] = c) - 1

RECURSIVE LStrip(_)
LStrip(s) ==
    IF s = <<>> THEN s
    ELSE IF IsSpace(Head(s)) THEN LStrip(Tail(s)) ELSE s

RECURSIVE RStrip(_)
RStrip(s) ==
    IF s = <<>> THEN s
    ELSE IF IsSpace(s[Len(s)]) THEN RStrip(SubSeq(s, 1, Len(s) - 1)) ELSE s

\* str.strip()
Strip(s) == RStrip(LStrip(s))

\* The length of the longest prefix of s without whitespace.
RECURSIVE WordLen(_)
WordLen(s) ==
    IF s = <<>> \/ IsSpace(Head(s)) THEN 0 ELSE 1 + WordLen(Tail(s))

\* str.split(): the whitespace-separated tokens of s.
RECURSIVE Split(_)
Split(s) ==
    LET t == LStrip(s)
        k == WordLen(t)
    IN  IF t = <<>> THEN <<>>
        ELSE <<SubSeq(t, 1, k)>> \o Split(SubSeq(t, k + 1, Len(t)))

\* Iterating a text file: its lines, here without their terminators (every
\* reader strips them).
RECURSIVE LinesOf(_)
LinesOf(t) ==
    IF t = <<>> THEN <<>>
    ELSE IF \E k \in 1..Len(t) : t[k] = NL
         THEN LET k == CHOOSE i \in 1..Len(t) :
                           t[i] = NL /\ \A j \in 1..(i - 1) : t[j] # NL
              IN  <<SubSeq(t, 1, k - 1)>> \o LinesOf(SubSeq(t, k + 1, Len(t)))
         ELSE <<t>>

RECURSIVE NatToStr(_)
NatToStr(n) ==
    IF n < 10 THEN <<Digits[n + 1]>>
    ELSE NatToStr(n \div 10) \o <<Digits[(n % 10) + 1]>>

\* str(n) of an int.
IntToStr(n) == IF n < 0 THEN <<"-">> \o NatToStr(-n) ELSE NatToStr(n)

RECURSIVE DigitsVal(_)
DigitsVal(s) ==
    IF s = <<>> THEN 0
    ELSE 10 * DigitsVal(SubSeq(s, 1, Len(s) - 1)) + DigitVal(s[Len(s)])

AllDigits(s) == s # <<>> /\ \A i \in 1..Len(s) : s[i] \in DigitChars

Unsigned(s) == IF s # <<>> /\ Head(s) \in {"-", "+"} THEN Tail(s) ELSE s

\* int(s) of a token: an optional sign and decimal digits; anything else
\* raises ValueError (ok = FALSE).
PyInt(s) ==
    LET u == Unsigned(s)
    IN  IF AllDigits(u)
        THEN [ok |-> TRUE,
              val |-> IF Head(s) = "-" THEN -DigitsVal(u) ELSE DigitsVal(u)]
        ELSE [ok |-> FALSE, val |-> 0]

\* float(s) of a token in plain decimal notation: an optional sign, digits
\* with at most one point and at least one digit.  neg is "the number is
\* below zero": -0 and -0.0 are not.
PyFloat(s) ==
    LET u == Unsigned(s)
        points == {i \in 1..Len(u) : u[i] = "."}
        digits == {i \in 1..Len(u) : u[i] \in DigitChars}
    IN  IF /\ points \cup digits = 1..Len(u)
           /\ Cardinality(points) <= 1
           /\ digits # {}
        THEN [ok |-> TRUE,
              neg |-> Head(s) = "-" /\ \E i \in digits : u[i] # "0"]
        ELSE [ok |-> FALSE, neg |-> FALSE]

RECURSIVE Sum(_)
Sum(s) == IF s = <<>> THEN 0 ELSE Head(s) + Sum(Tail(s))

RECURSIVE Concat(_)
Concat(ss) == IF ss = <<>> THEN <<>> ELSE Head(ss) \o Concat(Tail(ss))

(***************************************************************************)
(* httk.atomistic.data.periodictable, for the few species the model uses.  *)
(***************************************************************************)
Sym_H == <<"H">>
Sym_O == <<"O">>
Sym_S == <<"S">>
Sym_Fe == <<"F", "e">>
Sym_Co == <<"C", "o">>

\* periodictable.symbols: the symbols in order of atomic number.
symbols == <<Sym_H, <<"H", "e">>, <<"L", "i">>, <<"B", "e">>>>

\* periodictable.numbers: symbol -> atomic number (a missing key raises).
numbers ==
    [s \in {symbols[i] : i \in 1..Len(symbols)} \cup {Sym_O, Sym_S, Sym_Fe, Sym_Co} |->
        IF s = Sym_O THEN 8
        ELSE IF s = Sym_S THEN 16
        ELSE IF s = Sym_Fe THEN 26
        ELSE IF s = Sym_Co THEN 27
        ELSE CHOOSE i \in 1..Len(symbols) : symbols[i] = s]

(***************************************************************************)
(* poscar_to_strs                                                          *)
(***************************************************************************)
Failure(e) ==
    [ok |-> FALSE, err |-> e, cell |-> <<>>, scale |-> None, vol |-> None,
     coords |-> <<>>, coords_reduced |-> FALSE, counts |-> <<>>,
     occupations |-> <<>>, comment |-> <<>>]

\* x[0:k]
Prefix(x, k) == SubSeq(x, 1, IF k < Len(x) THEN k ELSE Len(x))

\* One coordinate row: the first three tokens of the line, each cut to
\* 2+included_decimals characters when included_decimals is given.
\* included_decimals is <<>> for the default '' and <<k>> for the int k.
CoordRow(line, included_decimals) ==
    LET strcoord == Prefix(Split(Strip(line)), 3)
    IN  IF included_decimals = <<>> THEN strcoord
        ELSE [j \in 1..Len(strcoord) |->
                 Prefix(strcoord[j], 2 + included_decimals[1])]

\* VolOrScale with the minus sign left on the volume.
VolOrScale_KeepSign(vol_or_scale) ==
    IF PyFloat(vol_or_scale).neg
    THEN [scale |-> None, vol |-> vol_or_scale]
    ELSE [scale |-> vol_or_scale, vol |-> None]

\* Line 2 of the file: (scale, vol) from the stripped text and its number.
VolOrScale(vol_or_scale) ==
    IF PyFloat(vol_or_scale).neg
    THEN [scale |-> None, vol |-> Tail(vol_or_scale)]
    ELSE [scale |-> vol_or_scale, vol |-> None]

CartesianMarks == {"C", "c", "K", "k"}

\* The coords_reduced flag returned for a (stripped, non-empty) coordinate-type line.
CoordsReducedFlag(coordtype) ==
    IF coordtype[1] \in CartesianMarks THEN TRUE ELSE FALSE

poscar_to_strs(text, included_decimals) ==
    LET lines == LinesOf(text)
        n == Len(lines)
        row(i) == Strip(lines[i])
        vol_or_scale == row(2)
        vol_or_scale_nbr == PyFloat(vol_or_scale)
        cellline(i) == Split(row(2 + i))
        cellBad == {i \in 1..3 : n < 2 + i \/ Len(cellline(i)) > 3}
        symbols_or_count == Split(row(6))
        nosymbols == \A i \in 1..Len(symbols_or_count) :
                         PyInt(symbols_or_count[i]).ok
        countToks == IF nosymbols THEN symbols_or_count ELSE Split(row(7))
        counts == [i \in 1..Len(countToks) |-> PyInt(countToks[i]).val]
        occupations ==
            IF nosymbols THEN [i \in 1..Len(counts) |-> -i]
            ELSE [i \in 1..Len(symbols_or_count) |-> numbers[symbols_or_count[i]]]
        N == Sum(counts)
        ctl == IF nosymbols THEN 7 ELSE 8
        coordtype_or_selectivedynamics == row(ctl)
        skip == coordtype_or_selectivedynamics[1] \in {"S", "s"}
        ctl2 == IF skip THEN ctl + 1 ELSE ctl
        coordtype == row(ctl2)
    IN  IF n < 2 THEN Failure("StopIteration")
        ELSE IF ~vol_or_scale_nbr.ok THEN Failure("ValueError")
        ELSE IF cellBad # {}
        THEN LET i == CHOOSE k \in cellBad : \A m \in cellBad : k <= m
             IN  IF n < 2 + i THEN Failure("StopIteration")
                 ELSE Failure("IndexError")
        ELSE IF n < 6 THEN Failure("StopIteration")
        ELSE IF ~nosymbols /\ n < 7 THEN Failure("StopIteration")
        ELSE IF \E i \in 1..Len(countToks) : ~PyInt(countToks[i]).ok
        THEN Failure("ValueError")
        ELSE IF ~nosymbols /\ \E i \in 1..Len(symbols_or_count) :
                                 symbols_or_count[i] \notin DOMAIN numbers
        THEN Failure("KeyError")
        ELSE IF n < ctl THEN Failure("StopIteration")
        ELSE IF coordtype_or_selectivedynamics = <<>> THEN Failure("IndexError")
        ELSE IF skip /\ n < ctl2 THEN Failure("StopIteration")
        ELSE IF coordtype = <<>> THEN Failure("IndexError")
        ELSE IF N > 0 /\ n < ctl2 + N THEN Failure("StopIteration")
        ELSE [ok |-> TRUE, err |-> "",
              cell |-> [i \in 1..3 |->
                          [j \in 1..3 |->
                              IF j <= Len(cellline(i)) THEN cellline(i)[j]
                              ELSE <<>>]],
              scale |-> VolOrScale(vol_or_scale).scale,
              vol |-> VolOrScale(vol_or_scale).vol,
              coords |-> [i \in 1..N |->
                            CoordRow(lines[ctl2 + i], included_decimals)],
              coords_reduced |-> CoordsReducedFlag(coordtype),
              counts |-> counts,
              occupations |-> occupations,
              comment |-> row(1)]

(***************************************************************************)
(* write_poscar                                                            *)
(***************************************************************************)
\* An occupations argument: None (given = FALSE), or a list of species,
\* each a symbol (ints = FALSE) or an int (ints = TRUE).
NoOccupations == [given |-> FALSE, ints |-> FALSE, vals |-> <<>>]

OccupationStr(occupations, i) ==
    IF ~occupations.given THEN symbols[i]
    ELSE IF occupations.ints THEN IntToStr(occupations.vals[i])
    ELSE occupations.vals[i]

\* The second line of the file: "-"+vol when vol is given, else the scale.
ScaleLine(scale, vol) ==
    IF vol # None THEN <<"-">> \o vol \o <<NL>> ELSE scale \o <<NL>>

\* The coordinate-type line.
CoordtypeLine(coords_reduced) ==
    IF coords_reduced THEN <<"D", NL>> ELSE <<"K", NL>>

Row3(r) == r[1] \o <<SP>> \o r[2] \o <<SP>> \o r[3] \o <<NL>>

write_poscar(cell, coords, coords_reduced, counts, occupations, comment, scale, vol) ==
    comment \o <<NL>>
    \o ScaleLine(scale, vol)
    \o Concat([i \in 1..Len(cell) |-> Row3(cell[i])])
    \o Concat([i \in 1..Len(counts) |-> OccupationStr(occupations, i) \o <<SP>>])
    \o <<NL>>
    \o Concat([i \in 1..Len(counts) |-> IntToStr(counts[i]) \o <<SP>>])
    \o <<NL>>
    \o CoordtypeLine(coords_reduced)
    \o Concat([i \in 1..Len(coords) |-> Row3(coords[i])])

(***************************************************************************)
(* httk.core's FracVector and FracScalar, as far as structure_to_poscar    *)
(* and calculate_kpoints use them.  A basis is a 3x3 matrix of integers;   *)
(* a coordinate is a rational <<numerator, denominator>>, denominator > 0. *)
(***************************************************************************)
Det3(m) ==
      m[1][1] * (m[2][2] * m[3][3] - m[2][3] * m[3][2])
    - m[1][2] * (m[2][1] * m[3][3] - m[2][3] * m[3][1])
    + m[1][3] * (m[2][1] * m[3][2] - m[2][2] * m[3][1])

\* -basis
NegBasis(m) == [i \in 1..3 |-> [j \in 1..3 |-> -m[i][j]]]

\* -coords
NegCoords(c) == [i \in 1..Len(c) |-> [j \in 1..3 |-> <<-c[i][j][1], c[i][j][2]>>]]

\* coords.normalize(): every coordinate taken into [0,1).
NormalizeCoords(c) ==
    [i \in 1..Len(c) |-> [j \in 1..3 |-> <<c[i][j][1] % c[i][j][2], c[i][j][2]>>]]

\* FracScalar.to_string()
FracToString(q) ==
    IF q[1] % q[2] = 0 THEN IntToStr(q[1] \div q[2])
    ELSE IntToStr(q[1]) \o <<"/">> \o IntToStr(q[2])

BasisToStrings(m) == [i \in 1..3 |-> [j \in 1..3 |-> IntToStr(m[i][j])]]

CoordsToStrings(c) == [i \in 1..Len(c) |-> [j \in 1..3 |-> FracToString(c[i][j])]]

(***************************************************************************)
(* structure_to_comment and structure_to_poscar                            *)
(***************************************************************************)
RECURSIVE JoinTags(_)
JoinTags(tags) ==
    IF tags = <<>> THEN <<>>
    ELSE Head(tags).tag \o <<":">> \o Head(tags).value
         \o (IF Tail(tags) = <<>> THEN <<>> ELSE <<",", SP>> \o JoinTags(Tail(tags)))

structure_to_comment(struct) ==
    LET tagstr == IF Len(struct.tags) > 0
                  THEN <<" ", "t", "a", "g", "s", ":", " ">> \o JoinTags(struct.tags) ELSE <<>>
    IN  IF struct.has_rc_repr /\ struct.has_uc_repr
        THEN struct.formula \o <<SP>> \o struct.hexhash \o tagstr
        ELSE struct.formula \o <<SP>> \o tagstr

\* The values of structure_to_poscar's locals at its call of write_poscar,
\* and the text write_poscar puts in the file.
\* FixDeterminant without the renormalisation of the negated coordinates.
FixDeterminant_NoNormalize(b, c, fix_negative_determinant) ==
    IF Det3(b) < 0 /\ fix_negative_determinant
    THEN [basis |-> NegBasis(b), coords |-> NegCoords(c)]
    ELSE [basis |-> b, coords |-> c]

\* The determinant fix: the (basis, coords) that are written.
FixDeterminant(b, c, fix_negative_determinant) ==
    IF Det3(b) < 0 /\ fix_negative_determinant
    THEN [basis |-> NegBasis(b), coords |-> NormalizeCoords(NegCoords(c))]
    ELSE [basis |-> b, coords |-> c]

structure_to_poscar(struct, fix_negative_determinant, comment, primitive_cell) ==
    LET cmt == IF comment = None THEN structure_to_comment(struct) ELSE comment
        cellrec == IF primitive_cell THEN struct.pc ELSE struct
        fixed == FixDeterminant(cellrec.uc_basis, cellrec.uc_reduced_coords,
                                fix_negative_determinant)
        b == fixed.basis
        c == fixed.coords
    IN  [basis |-> b, coords |-> c,
         text |-> write_poscar(BasisToStrings(b), CoordsToStrings(c), TRUE,
                               cellrec.uc_counts,
                               [given |-> TRUE, ints |-> FALSE, vals |-> struct.symbols],
                               cmt, <<"1">>, FracToString(cellrec.uc_volume))]

(***************************************************************************)
(* The codec's inputs.                                                     *)
(***************************************************************************)
MaxAtoms == 3
MaxSpecies == 2

Cells ==
    {<<<<<<"2">>, <<"0">>, <<"0">>>>, <<<<"0">>, <<"2">>, <<"0">>>>, <<<<"0">>, <<"0">>, <<"2">>>>>>,
     <<<<<<"1", ".", "5">>, <<"0">>, <<"0">>>>, <<<<"-", "0", ".", "5">>, <<"1">>, <<"0">>>>, <<<<"0">>, <<"0">>, <<"1", "/", "3">>>>>>}

CoordRows == {<<<<"0">>, <<"0">>, <<"0">>>>, <<<<"0", ".", "5">>, <<"0", ".", "2", "5">>, <<"1", "/", "3">>>>}

CountLists ==
    {c \in UNION {[1..k -> 1..MaxAtoms] : k \in 1..MaxSpecies} : Sum(c) <= MaxAtoms}

SpeciesSymbols == <<Sym_Fe, Sym_O, Sym_H>>
SpeciesNumbers == <<26, 8, 1>>

\* The occupations arguments for n species: None, symbols, atomic numbers.
OccupationArgs(n) ==
    {NoOccupations,
     [given |-> TRUE, ints |-> FALSE, vals |-> SubSeq(SpeciesSymbols, 1, n)],
     [given |-> TRUE, ints |-> TRUE, vals |-> SubSeq(SpeciesNumbers, 1, n)]}

Comment == <<"C", "o", "m", "m", "e", "n", "t">>

\* A POSCAR that some other program or a person wrote: the parts it is
\* assembled from.  symbolsLine and sdLine are <<>> (no such line) or <<l>>.
ScaleTokens == {<<"1">>, <<"0", ".", "5">>, <<"+", "2">>, <<"-", "8">>, <<"-", "0", ".", "5">>, <<"-", "0">>, <<"-", "0", ".", "0">>, <<"x">>}
SymbolsLines == {<<>>, <<<<"F", "e", " ", "O">>>>, <<<<"F", "e", " ", "X", "x">>>>}
SelectiveLines == {<<>>, <<<<"S", "e", "l", "e", "c", "t", "i", "v", "e", " ", "d", "y", "n", "a", "m", "i", "c", "s">>>>, <<<<"s">>>>}
CoordtypeLines == {<<"D", "i", "r", "e", "c", "t">>, <<"d">>, <<"C", "a", "r", "t", "e", "s", "i", "a", "n">>, <<"c", "a", "r", "t">>, <<"K">>, <<"k">>, <<" ", "D">>, <<>>}

ExternalSources ==
    [pad : {<<>>, <<SP>>}, scaleTok : ScaleTokens, symbolsLine : SymbolsLines,
     sdLine : SelectiveLines, coordtype : CoordtypeLines, nrows : {1, 2}]

ExternalRows == <<<<"0", " ", "0", " ", "0">>, <<" ", " ", "0", ".", "5", " ", "0", ".", "5", " ", "0", ".", "5", " ", "T", " ", "T", " ", "T">>>>

ExternalPoscar(src) ==
    Comment \o <<NL>>
    \o src.pad \o src.scaleTok \o <<NL>>
    \o <<"2", " ", "0", " ", "0", "\n">> \o <<" ", "0", " ", "2", " ", "0", "\n">> \o <<"0", " ", "0", " ", "2", " ", "\n">>
    \o Concat([i \in 1..Len(src.symbolsLine) |-> src.symbolsLine[i] \o <<NL>>])
    \o <<"1", " ", "1", "\n">>
    \o Concat([i \in 1..Len(src.sdLine) |-> src.sdLine[i] \o <<NL>>])
    \o src.coordtype \o <<NL>>
    \o Concat([i \in 1..src.nrows |-> ExternalRows[i] \o <<NL>>])

\* Structures for structure_to_poscar.
Bases ==
    {<<<<2, 0, 0>>, <<0, 2, 0>>, <<0, 0, 2>>>>,
     <<<<0, 2, 0>>, <<2, 0, 0>>, <<0, 0, 2>>>>,
     <<<<-1, 0, 0>>, <<0, 1, 1>>, <<0, 0, 3>>>>,
     <<<<1, 1, 0>>, <<1, 1, 0>>, <<0, 0, 1>>>>}

ReducedCoords ==
    {<<<<<<0, 1>>, <<0, 1>>, <<0, 1>>>>>>,
     <<<<<<1, 4>>, <<1, 2>>, <<3, 4>>>>>>,
     <<<<<<5, 4>>, <<-1, 3>>, <<1, 1>>>>>>}

Cell(b, c) == [uc_basis |-> b, uc_reduced_coords |-> c, uc_volume |-> <<8, 1>>,
               uc_counts |-> <<1>>]

Structs ==
    {[uc_basis |-> b, uc_reduced_coords |-> c, uc_volume |-> <<8, 1>>,
      uc_counts |-> <<1>>, pc |-> Cell(pb, c), symbols |-> <<Sym_Fe>>,
      formula |-> Sym_Fe, hexhash |-> <<"a", "1">>, tags |-> <<>>,
      has_rc_repr |-> TRUE, has_uc_repr |-> TRUE] :
        b \in Bases, pb \in Bases, c \in ReducedCoords}

(***************************************************************************)
(* The codec's operations.  One file is written, then read.                *)
(***************************************************************************)
NotParsed == [done |-> FALSE]

InitCodecVars ==
    /\ fileText = <<>>
    /\ origin = [by |-> "none"]
    /\ parsed = NotParsed

WritePoscar ==
    /\ origin.by = "none"
    /\ \E cell \in Cells, counts \in CountLists, coords_reduced \in BOOLEAN,
          vol \in {None, <<"8">>} :
         \E coords \in [1..Sum(counts) -> CoordRows],
            occupations \in OccupationArgs(Len(counts)) :
           /\ fileText' = write_poscar(cell, coords, coords_reduced, counts,
                                       occupations, Comment, <<"1">>, vol)
           /\ origin' = [by |-> "write_poscar", cell |-> cell, coords |-> coords,
                         coords_reduced |-> coords_reduced, counts |-> counts,
                         occupations |-> occupations, scale |-> <<"1">>, vol |-> vol]
    /\ UNCHANGED parsed

StructureToPoscar ==
    /\ origin.by = "none"
    /\ \E struct \in Structs, fix_negative_determinant \in BOOLEAN,
          primitive_cell \in BOOLEAN :
         LET w == structure_to_poscar(struct, fix_negative_determinant, None,
                                      primitive_cell)
         IN  /\ fileText' = w.text
             /\ origin' = [by |-> "structure_to_poscar", struct |-> struct,
                           fix_negative_determinant |-> fix_negative_determinant,
                           primitive_cell |-> primitive_cell,
                           basis |-> w.basis, coords |-> w.coords]
    /\ UNCHANGED parsed

ExternalWrite ==
    /\ origin.by = "none"
    /\ \E src \in ExternalSources :
         /\ fileText' = ExternalPoscar(src)
         /\ origin' = [by |-> "external", src |-> src]
    /\ UNCHANGED parsed

PoscarToStrs ==
    /\ origin.by # "none"
    /\ ~parsed.done
    /\ \E included_decimals \in {<<>>, <<1>>} :
         parsed' = [done |-> TRUE, included_decimals |-> included_decimals,
                    out |-> poscar_to_strs(fileText, included_decimals)]
    /\ UNCHANGED <<fileText, origin>>

(***************************************************************************)
(* Specifications.  Each component's specification leaves the variables    *)
(* of the others at their idle values.                                     *)
(***************************************************************************)
InitMagVars == ionlist = <<>> /\ maglevels = <<0, 0>> /\ magresult = <<>>

InitPPVars ==
    /\ fs = {} /\ cfg = None /\ env = None
    /\ ppcall = <<>> /\ ppresult = <<>> /\ probes = <<>>

InitKptVars == basis = <<>> /\ kpts = <<>>

InitOutcarVars == stream = <<>> /\ reader = <<>>

InitInfoVars == outcar = <<>> /\ calc_info = <<>>

InitResultVars == rundir = <<>> /\ assembled = <<>>

InitPrepVars == job = <<>> /\ prepared = <<>>

InitVersionVars == install = <<>> /\ version_data = <<>>

InitLaterVars == InitInfoVars /\ InitResultVars /\ InitPrepVars /\ InitVersionVars

InitCodec == InitCodecVars /\ InitMagVars /\ InitPPVars /\ InitKptVars /\ InitOutcarVars /\ InitLaterVars

NextCodec ==
    \/ WritePoscar /\ UNCHANGED <<magVars, ppVars, kptVars, outcarVars, laterVars>>
    \/ StructureToPoscar /\ UNCHANGED <<magVars, ppVars, kptVars, outcarVars, laterVars>>
    \/ ExternalWrite /\ UNCHANGED <<magVars, ppVars, kptVars, outcarVars, laterVars>>
    \/ PoscarToStrs /\ UNCHANGED <<magVars, ppVars, kptVars, outcarVars, laterVars>>

SpecCodec == InitCodec /\ [][NextCodec]_vars

(***************************************************************************)
(* Claims about the structure codec (checked under SpecCodec).             *)
(***************************************************************************)
\* A file written by write_poscar has been read back with the default
\* included_decimals.
ReadBack ==
    origin.by = "write_poscar" /\ parsed.done /\ parsed.included_decimals = <<>>

\* C1: write_poscar followed by poscar_to_strs returns the same counts, the
\* same coords_reduced flag and token-for-token equal cell and coordinates,
\* for every cell, coordinates, positive counts, species assignment and flag.
C1_RoundTrip ==
    ReadBack =>
        /\ parsed.out.ok
        /\ parsed.out.counts = origin.counts
        /\ parsed.out.coords_reduced = origin.coords_reduced
        /\ parsed.out.cell = origin.cell
        /\ parsed.out.coords = origin.coords

\* The first character of the coordinate-type line of an externally written
\* file (the line after the optional selective-dynamics line).
CoordtypeMark == Head(Strip(origin.src.coordtype))

\* C2: poscar_to_strs returns coords_reduced = TRUE exactly when the
\* coordinate-type line does not start with one of C, c, K, k (reduced
\* coordinates), and FALSE when it does (cartesian coordinates).
C2_CoordsReducedMeansDirect ==
    (origin.by = "external" /\ parsed.done /\ parsed.out.ok) =>
        (parsed.out.coords_reduced <=> CoordtypeMark \notin CartesianMarks)

\* The line-2 tokens that denote a number below zero.
NegativeScaleTokens == {<<"-", "8">>, <<"-", "0", ".", "5">>}

\* C3: for every parsable POSCAR exactly one of scale and vol is non-null:
\* a negative number on line 2 gives vol = the text without its minus sign
\* and scale = None, any other number gives scale = the text and vol = None;
\* and write_poscar writes "-"+vol when vol is given and the scale otherwise.
C3_ExactlyOneOfScaleVol ==
    /\ (origin.by = "external" /\ parsed.done /\ parsed.out.ok) =>
         /\ (parsed.out.scale = None) # (parsed.out.vol = None)
         /\ IF origin.src.scaleTok \in NegativeScaleTokens
            THEN parsed.out.vol = Tail(origin.src.scaleTok) /\ parsed.out.scale = None
            ELSE parsed.out.scale = origin.src.scaleTok /\ parsed.out.vol = None
    /\ origin.by = "write_poscar" =>
         /\ LinesOf(fileText)[2] =
                IF origin.vol # None THEN <<"-">> \o origin.vol ELSE origin.scale
         /\ (parsed.done /\ parsed.out.ok) =>
                IF origin.vol # None
                THEN parsed.out.vol = origin.vol /\ parsed.out.scale = None
                ELSE parsed.out.scale = origin.scale /\ parsed.out.vol = None

\* Witness of C3: a file whose line 2 is the negative number -8, padded with
\* a blank, was parsed and gave the volume 8 and no scale.
C3_Witness ==
    /\ origin.by = "external" /\ parsed.done /\ parsed.out.ok
    /\ origin.src.scaleTok = <<"-", "8">> /\ origin.src.pad = <<SP>>
    /\ parsed.out.vol = <<"8">>

\* The cell record structure_to_poscar was told to write.
WrittenCell ==
    IF origin.primitive_cell THEN origin.struct.pc ELSE origin.struct

InUnitInterval(q) == 0 <= q[1] /\ q[1] < q[2]

\* q and r differ by an integer (equal denominators).
SameModOne(q, r) == q[2] = r[2] /\ (q[1] - r[1]) % q[2] = 0

\* C4: with fix_negative_determinant enabled and a basis of negative
\* determinant, structure_to_poscar writes the negated basis (positive
\* determinant) and the negated coordinates normalized into [0,1); when
\* the determinant is not negative or the fix is disabled it writes basis
\* and coordinates unchanged.
C4_DeterminantFix ==
    origin.by = "structure_to_poscar" =>
        LET b0 == WrittenCell.uc_basis
            c0 == WrittenCell.uc_reduced_coords
        IN  /\ IF origin.fix_negative_determinant /\ Det3(b0) < 0
               THEN /\ origin.basis = NegBasis(b0)
                    /\ Det3(origin.basis) > 0
                    /\ Len(origin.coords) = Len(c0)
                    /\ \A i \in 1..Len(c0), j \in 1..3 :
                         /\ InUnitInterval(origin.coords[i][j])
                         /\ SameModOne(origin.coords[i][j], <<-c0[i][j][1], c0[i][j][2]>>)
               ELSE origin.basis = b0 /\ origin.coords = c0
            /\ (parsed.done /\ parsed.included_decimals = <<>>) =>
                 /\ parsed.out.ok
                 /\ parsed.out.cell = BasisToStrings(origin.basis)
                 /\ parsed.out.coords = CoordsToStrings(origin.coords)

\* Witness of C4: the fix was applied to a basis of negative determinant
\* with a coordinate outside [0,1), and the written file was read back.
C4_Witness ==
    /\ origin.by = "structure_to_poscar" /\ origin.fix_negative_determinant
    /\ Det3(WrittenCell.uc_basis) < 0
    /\ \E j \in 1..3 : ~InUnitInterval(WrittenCell.uc_reduced_coords[1][j])
    /\ parsed.done /\ parsed.included_decimals = <<>> /\ parsed.out.ok

(***************************************************************************)
(* The magnetic-configuration enumerator.  A moment vector holds, per ion, *)
(* <<m>> for the moment m and <<>> for None (not yet resolved).            *)
(***************************************************************************)
magions ==
    {<<"A", "g">>, <<"A", "u">>, <<"C", "d">>, <<"C", "e">>, <<"C", "o">>,
     <<"C", "r">>, <<"C", "u">>, <<"D", "y">>, <<"E", "r">>, <<"E", "u">>,
     <<"F", "e">>, <<"G", "d">>, <<"H", "f">>, <<"H", "g">>, <<"H", "o">>,
     <<"I", "r">>, <<"L", "a">>, <<"L", "u">>, <<"M", "n">>, <<"M", "o">>,
     <<"N", "b">>, <<"N", "d">>, <<"N", "i">>, <<"O", "s">>, <<"P", "a">>,
     <<"P", "d">>, <<"P", "m">>, <<"P", "r">>, <<"P", "t">>, <<"R", "e">>,
     <<"R", "h">>, <<"R", "u">>, <<"S", "c">>, <<"S", "m">>, <<"T", "a">>,
     <<"T", "b">>, <<"T", "c">>, <<"T", "h">>, <<"T", "i">>, <<"T", "m">>,
     <<"U">>, <<"V">>, <<"W">>, <<"Y">>, <<"Y", "b">>, <<"Z", "n">>,
     <<"Z", "r">>}

\* dualmag: anion -> the cations whose moment is ambiguous next to it.
dualmag ==
    [a \in {Sym_O, Sym_S} |->
        IF a = Sym_O THEN {Sym_Co}
        ELSE {<<"M", "n">>, Sym_Fe, <<"C", "r">>, Sym_Co}]

is_dualmagnetic(ion, ions) ==
    \E i \in 1..Len(ions) : ions[i] \in DOMAIN dualmag /\ ion \in dualmag[ions[i]]

\* magnetization_recurse that forgets the low branch.
RECURSIVE magnetization_recurse_HighOnly(_, _, _, _)
magnetization_recurse_HighOnly(basemags, dualmags, high, low) ==
    IF Len(dualmags) = 0 THEN <<basemags>>
    ELSE LET index == dualmags[Len(dualmags)]
             rest == SubSeq(dualmags, 1, Len(dualmags) - 1)
         IN  magnetization_recurse_HighOnly([basemags EXCEPT ![index] = <<high>>],
                                            rest, high, low)

\* magnetization_recurse with the two branches concatenated the other way.
RECURSIVE magnetization_recurse_LowFirst(_, _, _, _)
magnetization_recurse_LowFirst(basemags, dualmags, high, low) ==
    IF Len(dualmags) = 0 THEN <<basemags>>
    ELSE LET index == dualmags[Len(dualmags)]
             rest == SubSeq(dualmags, 1, Len(dualmags) - 1)
         IN  magnetization_recurse_LowFirst([basemags EXCEPT ![index] = <<low>>],
                                            rest, high, low)
             \o magnetization_recurse_LowFirst([basemags EXCEPT ![index] = <<high>>],
                                               rest, high, low)

\* The recursion proper: dualmags.pop() takes the last index, the high
\* branch is expanded first, hi_list + low_list is returned.
RECURSIVE magnetization_recurse(_, _, _, _)
magnetization_recurse(basemags, dualmags, high, low) ==
    IF Len(dualmags) = 0 THEN <<basemags>>
    ELSE LET index == dualmags[Len(dualmags)]
             rest == SubSeq(dualmags, 1, Len(dualmags) - 1)
             hi_list == magnetization_recurse([basemags EXCEPT ![index] = <<high>>],
                                              rest, high, low)
             low_list == magnetization_recurse([basemags EXCEPT ![index] = <<low>>],
                                               rest, high, low)
         IN  hi_list \o low_list

\* dualmags: the indices of the dual ions among the first n, ascending.
RECURSIVE DualIndices(_, _)
DualIndices(ions, n) ==
    IF n = 0 THEN <<>>
    ELSE DualIndices(ions, n - 1)
         \o (IF is_dualmagnetic(ions[n], ions) THEN <<n>> ELSE <<>>)

get_magnetizations(ions, high, low) ==
    LET basemags == [i \in 1..Len(ions) |->
                        IF is_dualmagnetic(ions[i], ions) THEN <<>>
                        ELSE IF ions[i] \in magions THEN <<high>> ELSE <<low>>]
        dualmags == DualIndices(ions, Len(ions))
    IN  magnetization_recurse(basemags, dualmags, high, low)

MaxIons == 3

IonSymbols == {Sym_O, Sym_S, Sym_Co, Sym_Fe, Sym_H}

IonLists == UNION {[1..n -> IonSymbols] : n \in 0..MaxIons}

\* (high, low): the moments prepare_single_run passes, and equal moments.
MagLevels == {<<5, 1>>, <<2, 2>>}

\* magresult = <<>> : get_magnetizations has not been called.
GetMagnetizations ==
    /\ magresult = <<>>
    /\ \E ions \in IonLists, levels \in MagLevels :
         /\ ionlist' = ions
         /\ maglevels' = levels
         /\ magresult' = get_magnetizations(ions, levels[1], levels[2])

\* prepare_single_run's use of the result: magmom_per_ion = magmomlist[0].
MagmomPerIon == magresult[1]

InitMag == InitCodecVars /\ InitMagVars /\ InitPPVars /\ InitKptVars /\ InitOutcarVars /\ InitLaterVars

NextMag ==
    \/ GetMagnetizations /\ UNCHANGED <<codecVars, ppVars, kptVars, outcarVars, laterVars>>

SpecMag == InitMag /\ [][NextMag]_vars

(***************************************************************************)
(* Claims about the magnetic enumerator (checked under SpecMag).           *)
(***************************************************************************)
\* Ion i is dual-flagged: Co with O in the list, or Mn, Fe, Cr, Co with S.
DualFlagged(i) ==
    \/ ionlist[i] = Sym_Co /\ \E j \in 1..Len(ionlist) : ionlist[j] = Sym_O
    \/ /\ ionlist[i] \in {<<"M", "n">>, Sym_Fe, <<"C", "r">>, Sym_Co}
       /\ \E j \in 1..Len(ionlist) : ionlist[j] = Sym_S

DualSet == {i \in 1..Len(ionlist) : DualFlagged(i)}

High == <<maglevels[1]>>
Low == <<maglevels[2]>>

\* The species of the model that are in the magnetic reference list.
MagneticSpecies == {Sym_Co, Sym_Fe}

\* C5: with exactly k dual-flagged ions get_magnetizations returns exactly
\* 2^k candidates, each of the ion list's length and without None; with
\* k = 0 it returns the one direct classification (high for species of the
\* magnetic reference list, low otherwise).
C5_EnumeratorSize ==
    magresult # <<>> =>
        /\ Len(magresult) = 2 ^ Cardinality(DualSet)
        /\ \A c \in 1..Len(magresult) :
             /\ Len(magresult[c]) = Len(ionlist)
             /\ \A i \in 1..Len(ionlist) : magresult[c][i] # <<>>
        /\ DualSet = {} =>
             magresult = <<[i \in 1..Len(ionlist) |->
                              IF ionlist[i] \in MagneticSpecies THEN High ELSE Low]>>

\* Witness of C5: two dual ions gave four candidates.
C5_Witness ==
    magresult # <<>> /\ Cardinality(DualSet) = 2 /\ Len(magresult) = 4

\* What C6 says of the order, but for the distinctness of the candidates.
OrderFacts ==
    /\ \A i \in DualSet : MagmomPerIon[i] = High
    /\ \A i \in DualSet : magresult[Len(magresult)][i] = Low
    /\ \A i \in 1..Len(ionlist) \ DualSet :
         \A c \in 1..Len(magresult) : magresult[c][i] = magresult[1][i]

PairwiseDistinct ==
    \A c, d \in 1..Len(magresult) : c # d => magresult[c] # magresult[d]

\* C6, as claimed: the first candidate assigns high to every dual ion, the
\* last assigns low to every dual ion, all 2^k candidates are pairwise
\* distinct and every non-dual position holds the same value in all.
C6_OrderAsClaimed ==
    magresult # <<>> => OrderFacts /\ PairwiseDistinct

\* The number of dual ions at or below position i.
DualRank(i) == Cardinality({j \in DualSet : j <= i})

\* C6, amended: the candidates are the depth-first, high-branch-first
\* expansion (candidate number m, from 0, gives the j-th dual ion high
\* exactly when bit j-1 of m is 0, so that the last dual index is branched
\* on first); the first is all-high, the last all-low, non-dual positions
\* agree in all candidates, and the candidates are pairwise distinct
\* whenever high and low differ.
C6_Order ==
    magresult # <<>> =>
        /\ OrderFacts
        /\ \A c \in 1..Len(magresult) : \A i \in DualSet :
             magresult[c][i] =
                 IF ((c - 1) \div (2 ^ (DualRank(i) - 1))) % 2 = 0 THEN High ELSE Low
        /\ High # Low => PairwiseDistinct

\* Witness of C6: two dual ions, different moments, and the second candidate
\* has the first dual ion low and the second (branched on first) high.
C6_Witness ==
    /\ magresult # <<>> /\ High # Low /\ Cardinality(DualSet) = 2
    /\ \E i, j \in DualSet :
         i < j /\ magresult[2][i] = Low /\ magresult[2][j] = High

(***************************************************************************)
(* The pseudopotential resolver.  A path is a character sequence; the file *)
(* system fs maps each existing path to its node, a directory or a file    *)
(* with its text; config maps section names to their options; env maps     *)
(* variable names to values.                                               *)
(***************************************************************************)
Home == <<"/", "h", "o", "m", "e", "/", "u">>

\* os.path.expanduser, for "~" and "~/..." (the current user's home).
expanduser(path) ==
    IF path # <<>> /\ Head(path) = "~" /\ (Len(path) = 1 \/ path[2] = "/")
    THEN Home \o Tail(path)
    ELSE path

\* os.path.join of two components.
join(a, b) ==
    IF b # <<>> /\ Head(b) = "/" THEN b
    ELSE IF a = <<>> \/ a[Len(a)] = "/" THEN a \o b
    ELSE a \o <<"/">> \o b

\* os.path.exists
exists(fsys, path) == path \in DOMAIN fsys

\* cleveropen(path, 'r') followed by read(): the text, or an IOError.
ReadFile(fsys, path) ==
    IF path \in DOMAIN fsys /\ fsys[path].kind = "file"
    THEN [ok |-> TRUE, data |-> fsys[path].data]
    ELSE [ok |-> FALSE, data |-> <<>>]

\* config.get(section, option): the value, or NoSectionError/NoOptionError.
ConfigGet(config, section, option) ==
    IF section \in DOMAIN config /\ option \in DOMAIN config[section]
    THEN [ok |-> TRUE, val |-> config[section][option]]
    ELSE [ok |-> FALSE, val |-> None]

\* ResolveLibrary with the environment consulted before the configuration.
ResolveLibrary_EnvFirst(poscarspath, config, environ) ==
    IF poscarspath # None THEN poscarspath
    ELSE IF "VASP_PSEUDOLIB" \in DOMAIN environ THEN environ["VASP_PSEUDOLIB"]
    ELSE IF ConfigGet(config, "paths", "vasp_pseudolib").ok
         THEN ConfigGet(config, "paths", "vasp_pseudolib").val
    ELSE None

\* The library path get_pseudopotential settles on (None: none found).
ResolveLibrary(poscarspath, config, environ) ==
    LET p1 == IF poscarspath = None
              THEN (IF ConfigGet(config, "paths", "vasp_pseudolib").ok
                    THEN ConfigGet(config, "paths", "vasp_pseudolib").val
                    ELSE None)
              ELSE poscarspath
        p2 == IF p1 = None /\ "VASP_PSEUDOLIB" \in DOMAIN environ
              THEN environ["VASP_PSEUDOLIB"] ELSE p1
    IN  p2

Priorities == <<<<"_", "3">>, <<"_", "2">>, <<"_", "d">>, <<"_", "p", "v">>, <<"_", "s", "v">>, <<>>, <<"_", "h">>, <<"_", "s">>>>

ErrNoPath == <<"h", "t", "t", "k", ".", "i", "f", "a", "c", "e", ".", "v", "a", "s", "p", "_", "i", "f", ".", "g", "e", "t", "_", "p", "s", "e", "u", "d", "o", "p", "o", "t", "e", "n", "t", "i", "a", "l", "s", ":", " ", "N", "o", " ", "p", "a", "t", "h", " ", "g", "i", "v", "e", "n", " ", "f", "o", "r", " ", "w", "h", "e", "r", "e", " ", "t", "o", " ", "f", "i", "n", "d", " ", "V", "A", "S", "P", " ", "p", "s", "e", "u", "d", "o", "p", "o", "t", "e", "n", "t", "i", "a", "l", "s", ".">>
ErrNoPseudopotential == <<"h", "t", "t", "k", ".", "i", "f", "a", "c", "e", ".", "v", "a", "s", "p", "_", "i", "f", ".", "g", "e", "t", "_", "p", "s", "e", "u", "d", "o", "p", "o", "t", "e", "n", "t", "i", "a", "l", "s", ":", " ", "c", "o", "u", "l", "d", " ", "n", "o", "t", " ", "f", "i", "n", "d", " ", "a", " ", "s", "u", "i", "t", "a", "b", "l", "e", " ", "p", "s", "e", "u", "d", "o", "p", "o", "t", "e", "n", "t", "i", "a", "l", " ", "f", "o", "r", " ">>
ErrIO == <<"I", "O", "E", "r", "r", "o", "r">>

POTCAR == <<"P", "O", "T", "C", "A", "R">>

\* TryPriorities that goes on to the next suffix when a POTCAR cannot be read.
RECURSIVE TryPriorities_Swallow(_, _, _, _, _)
TryPriorities_Swallow(fsys, poscarspath, species, k, probed) ==
    IF k > Len(Priorities)
    THEN [ok |-> FALSE, data |-> <<>>, exc |-> ErrNoPseudopotential \o species,
          probes |-> probed]
    ELSE LET basepath == join(poscarspath, species)
             dir == basepath \o Priorities[k]
             f == ReadFile(fsys, join(dir, POTCAR))
         IN  IF exists(fsys, dir) /\ f.ok
             THEN [ok |-> TRUE, data |-> f.data, exc |-> <<>>,
                   probes |-> Append(probed, dir)]
             ELSE TryPriorities_Swallow(fsys, poscarspath, species, k + 1,
                                        Append(probed, dir))

\* The loop over the suffixes, from the k-th on; probed are the paths
\* already given to os.path.exists.
RECURSIVE TryPriorities(_, _, _, _, _)
TryPriorities(fsys, poscarspath, species, k, probed) ==
    IF k > Len(Priorities)
    THEN [ok |-> FALSE, data |-> <<>>, exc |-> ErrNoPseudopotential \o species,
          probes |-> probed]
    ELSE LET basepath == join(poscarspath, species)
             dir == basepath \o Priorities[k]
             f == ReadFile(fsys, join(dir, POTCAR))
         IN  IF exists(fsys, dir)
             THEN (IF f.ok
                   THEN [ok |-> TRUE, data |-> f.data, exc |-> <<>>,
                         probes |-> Append(probed, dir)]
                   ELSE [ok |-> FALSE, data |-> <<>>, exc |-> ErrIO,
                         probes |-> Append(probed, dir)])
             ELSE TryPriorities(fsys, poscarspath, species, k + 1,
                                Append(probed, dir))

get_pseudopotential(fsys, config, environ, species, poscarspath) ==
    LET lib == ResolveLibrary(poscarspath, config, environ)
    IN  IF lib = None
        THEN [ok |-> FALSE, data |-> <<>>, exc |-> ErrNoPath, probes |-> <<>>]
        ELSE TryPriorities(fsys, expanduser(lib), species, 1, <<>>)

(***************************************************************************)
(* The resolver's environment and operation.                               *)
(***************************************************************************)
ArgPath == <<"/", "a", "r", "g">>
CfgPath == <<"/", "c", "f", "g">>
EnvPath == <<"~", "/", "e", "n", "v">>

\* The libraries on disk.
Libraries == {ArgPath, CfgPath, expanduser(EnvPath)}

PotcarText(dir) == <<"P", "A", "W", " ">> \o dir \o <<NL>>

Directory == [kind |-> "dir"]

\* The species directories with suffixes in present exist in every library,
\* each with a POTCAR but for the suffixes in unreadable; O exists plain
\* and as O_s.
Library(present, unreadable) ==
    LET dirs == {join(l, Sym_Fe) \o sf : l \in Libraries, sf \in present}
                \cup {join(l, Sym_O) \o sf : l \in Libraries, sf \in {<<>>, <<"_", "s">>}}
        files == {join(join(l, Sym_Fe) \o sf, POTCAR) :
                      l \in Libraries, sf \in present \ unreadable}
                 \cup {join(join(l, Sym_O) \o sf, POTCAR) :
                      l \in Libraries, sf \in {<<>>, <<"_", "s">>}}
    IN  [p \in Libraries \cup dirs \cup files |->
            IF p \in files
            THEN [kind |-> "file",
                  data |-> PotcarText(SubSeq(p, 1, Len(p) - Len(POTCAR) - 1))]
            ELSE Directory]

PrioritySet == {Priorities[i] : i \in 1..Len(Priorities)}

Configs ==
    {<<>>,
     [s \in {"paths"} |-> <<>>],
     [s \in {"paths"} |-> [o \in {"vasp_pseudolib"} |-> CfgPath]]}

Environs == {<<>>, [v \in {"VASP_PSEUDOLIB"} |-> EnvPath]}

InitResolver ==
    /\ \E present \in SUBSET PrioritySet :
         \E unreadable \in {u \in SUBSET present : Cardinality(u) <= 1} :
            fs = Library(present, unreadable)
    /\ cfg \in Configs
    /\ env \in Environs
    /\ ppcall = <<>> /\ ppresult = <<>> /\ probes = <<>>

\* ppcall = <<>> : get_pseudopotential has not been called.
GetPseudopotential ==
    /\ ppcall = <<>>
    /\ \E species \in {Sym_Fe, Sym_O, Sym_H}, poscarspath \in {None, ArgPath} :
         LET r == get_pseudopotential(fs, cfg, env, species, poscarspath)
         IN  /\ ppcall' = [species |-> species, poscarspath |-> poscarspath]
             /\ ppresult' = [ok |-> r.ok, data |-> r.data, exc |-> r.exc]
             /\ probes' = r.probes
    /\ UNCHANGED <<fs, cfg, env>>

InitPP == InitCodecVars /\ InitMagVars /\ InitResolver /\ InitKptVars /\ InitOutcarVars /\ InitLaterVars

NextPP ==
    \/ GetPseudopotential /\ UNCHANGED <<codecVars, magVars, kptVars, outcarVars, laterVars>>

SpecPP == InitPP /\ [][NextPP]_vars

(***************************************************************************)
(* Claims about the pseudopotential resolver (checked under SpecPP).       *)
(***************************************************************************)
ArgGiven == ppcall.poscarspath # None

OptionSet == "paths" \in DOMAIN cfg /\ "vasp_pseudolib" \in DOMAIN cfg["paths"]

VariableSet == "VASP_PSEUDOLIB" \in DOMAIN env

\* The library the claims say is used: the argument, else the configured
\* one, else the environment's (with ~ standing for the home directory).
ClaimedLibrary ==
    IF ArgGiven THEN <<"/", "a", "r", "g">> ELSE IF OptionSet THEN <<"/", "c", "f", "g">> ELSE <<"/", "h", "o", "m", "e", "/", "u", "/", "e", "n", "v">>

\* The suffixes in the order the claims give.
ClaimedOrder == <<<<"_", "3">>, <<"_", "2">>, <<"_", "d">>, <<"_", "p", "v">>, <<"_", "s", "v">>, <<>>, <<"_", "h">>, <<"_", "s">>>>

SpeciesDir(k) == ClaimedLibrary \o <<"/">> \o ppcall.species \o ClaimedOrder[k]

PresentRanks == {k \in 1..Len(ClaimedOrder) : SpeciesDir(k) \in DOMAIN fs}

FirstPresent == CHOOSE k \in PresentRanks : \A m \in PresentRanks : k <= m

\* C7: get_pseudopotential returns the POTCAR content of species+suffix for
\* the first suffix, in the order _3, _2, _d, _pv, _sv, (empty), _h, _s,
\* whose subdirectory exists (an error if that POTCAR cannot be read, never
\* the content of a later suffix), and fails with an error naming the
\* species when no suffix variant exists.
C7_Priority ==
    (ppcall # <<>> /\ (ArgGiven \/ OptionSet \/ VariableSet)) =>
        IF PresentRanks = {}
        THEN /\ ~ppresult.ok
             /\ ppresult.exc = <<"h", "t", "t", "k", ".", "i", "f", "a", "c", "e", ".", "v", "a", "s", "p", "_", "i", "f", ".", "g", "e", "t", "_", "p", "s", "e", "u", "d", "o", "p", "o", "t", "e", "n", "t", "i", "a", "l", "s", ":", " ", "c", "o", "u", "l", "d", " ", "n", "o", "t", " ", "f", "i", "n", "d", " ", "a", " ", "s", "u", "i", "t", "a", "b", "l", "e", " ", "p", "s", "e", "u", "d", "o", "p", "o", "t", "e", "n", "t", "i", "a", "l", " ", "f", "o", "r", " ">> \o ppcall.species
        ELSE IF SpeciesDir(FirstPresent) \o <<"/", "P", "O", "T", "C", "A", "R">> \in DOMAIN fs
             THEN /\ ppresult.ok
                  /\ ppresult.data = fs[SpeciesDir(FirstPresent) \o <<"/", "P", "O", "T", "C", "A", "R">>].data
                  /\ ppresult.data = PotcarText(SpeciesDir(FirstPresent))
             ELSE ~ppresult.ok

\* Witness of C7: Fe exists as Fe_pv, plain Fe and Fe_s (the latter two
\* of lower priority, Fe_s without a readable POTCAR) and Fe_pv's POTCAR
\* was returned.
C7_Witness ==
    /\ ppcall # <<>> /\ ArgGiven /\ ppcall.species = Sym_Fe
    /\ PresentRanks = {4, 6, 8}
    /\ <<"/", "a", "r", "g", "/", "F", "e", "_", "s", "/", "P", "O", "T", "C", "A", "R">> \notin DOMAIN fs
    /\ ppresult.ok /\ ppresult.data = PotcarText(<<"/", "a", "r", "g", "/", "F", "e", "_", "p", "v">>)

IsPrefix(a, b) == Len(a) <= Len(b) /\ SubSeq(b, 1, Len(a)) = a

\* C8: the library path is the explicit argument whenever given, else the
\* configuration value [paths]/vasp_pseudolib whenever set (even if the
\* environment variable is set too), else the environment variable
\* VASP_PSEUDOLIB; with all three absent the call fails before any
\* file-system lookup.
C8_PathFallThrough ==
    ppcall # <<>> =>
        IF ArgGiven \/ OptionSet \/ VariableSet
        THEN /\ probes # <<>>
             /\ \A i \in 1..Len(probes) :
                  IsPrefix(ClaimedLibrary \o <<"/">> \o ppcall.species, probes[i])
             /\ ppresult.ok => ppresult.data = PotcarText(probes[Len(probes)])
        ELSE /\ ~ppresult.ok
             /\ ppresult.exc = ErrNoPath
             /\ probes = <<>>

\* Witness of C8: no argument, option and variable both set, and the
\* potential came from the configured library.
C8_Witness ==
    /\ ppcall # <<>> /\ ~ArgGiven /\ OptionSet /\ VariableSet
    /\ ppresult.ok /\ IsPrefix(<<"P", "A", "W", " ", "/", "c", "f", "g", "/">>, ppresult.data)

(***************************************************************************)
(* The k-point estimator.  Lengths are kept exact: the squared length of   *)
(* a reciprocal vector is the rational <<numerator, denominator>>, and     *)
(* ceil(sqrt(q)*dens + 0.5) is found by comparing squares.                 *)
(***************************************************************************)
\* The cofactor of m at (i, j), rows and columns counted cyclically.
Cofactor(m, i, j) ==
    LET i1 == (i % 3) + 1
        i2 == ((i + 1) % 3) + 1
        j1 == (j % 3) + 1
        j2 == ((j + 1) % 3) + 1
    IN  m[i1][j1] * m[i2][j2] - m[i1][j2] * m[i2][j1]

\* basis.reciprocal()[i].lengthsqr(): row i of the inverse transpose is the
\* row of cofactors over the determinant.
RecipLengthSqr(m, i) ==
    <<Cofactor(m, i, 1) * Cofactor(m, i, 1) + Cofactor(m, i, 2) * Cofactor(m, i, 2)
          + Cofactor(m, i, 3) * Cofactor(m, i, 3),
      Det3(m) * Det3(m)>>

\* n >= sqrt(q)*dens + 1/2, for the rational q >= 0.
AtLeast(n, q, dens) ==
    IF dens >= 0
    THEN n >= 1 /\ (2 * n - 1) * (2 * n - 1) * q[2] >= 4 * q[1] * dens * dens
    ELSE n >= 1 \/ (1 - 2 * n) * (1 - 2 * n) * q[2] <= 4 * q[1] * dens * dens

MeshRange == 64

\* math.ceil(math.sqrt(q)*dens + half)
CeilSqrtTimes(q, dens) ==
    CHOOSE n \in (-MeshRange)..MeshRange :
        AtLeast(n, q, dens) /\ ~AtLeast(n - 1, q, dens)

\* int(c + 0.1) of an integer c: int() truncates towards zero.
IntPlusTenth(c) == IF c >= 0 THEN c ELSE c + 1

Max(a, b) == IF a >= b THEN a ELSE b

\* KpointCount without the half that is added before the ceiling.
KpointCount_NoHalf(q, dens) ==
    IntPlusTenth(CeilSqrtTimes(q, dens) - 1)

\* N1, N2, N3 of calculate_kpoints.
KpointCount(q, dens) == IntPlusTenth(CeilSqrtTimes(q, dens))

ErrSingular == <<"v", "a", "s", "p", "_", "i", "f", ".", "c", "a", "l", "c", "u", "l", "a", "t", "e", "_", "k", "p", "o", "i", "n", "t", "s", ":", " ", "E", "r", "r", "o", "r", " ", "i", "n", " ", "V", "A", "S", "P", "_", "K", "P", "O", "I", "N", "T", "S", "L", "I", "N", "E", ":", " ", "s", "i", "n", "g", "u", "l", "a", "r", " ", "c", "e", "l", "l", " ", "v", "e", "c", "t", "o", "r", "s", ".", " ", "P", "O", "S", "C", "A", "R", " ", "i", "s", " ", "b", "r", "o", "k", "e", "n", ".">>

calculate_kpoints(uc_basis, dens) ==
    LET celldet == Det3(uc_basis)
        cellvol == IF celldet < 0 THEN -celldet ELSE celldet
    IN  IF cellvol = 0
        THEN [called |-> TRUE, ok |-> FALSE, exc |-> ErrSingular, mesh |-> <<>>]
        ELSE [called |-> TRUE, ok |-> TRUE, exc |-> <<>>,
              mesh |-> [i \in 1..3 |->
                           Max(1, KpointCount(RecipLengthSqr(uc_basis, i), dens))]]

MaxEdge == 3

Diag(a, b, c) == <<<<a, 0, 0>>, <<0, b, 0>>, <<0, 0, c>>>>

KBases ==
    {Diag(a, b, c) : a, b, c \in 0..MaxEdge}
    \cup {<<<<0, 1, 1>>, <<1, 0, 1>>, <<1, 1, 0>>>>,
          <<<<1, 1, 0>>, <<0, 1, 0>>, <<0, 0, -2>>>>,
          <<<<1, 1, 0>>, <<1, 1, 0>>, <<0, 0, 1>>>>,
          <<<<-2, 0, 0>>, <<0, -2, 0>>, <<0, 0, -2>>>>}

\* The densities tried; 20 is the default.
Densities == {-1, 0, 1, 3, 20}

NotCalled == [called |-> FALSE, ok |-> FALSE, exc |-> <<>>, mesh |-> <<>>]

InitEstimator ==
    /\ basis \in KBases
    /\ kpts = [d \in Densities |-> NotCalled]

CalculateKpoints ==
    /\ \E dens \in Densities :
         /\ ~kpts[dens].called
         /\ kpts' = [kpts EXCEPT ![dens] = calculate_kpoints(basis, dens)]
    /\ UNCHANGED basis

InitKpt == InitCodecVars /\ InitMagVars /\ InitPPVars /\ InitEstimator /\ InitOutcarVars /\ InitLaterVars

NextKpt ==
    \/ CalculateKpoints /\ UNCHANGED <<codecVars, magVars, ppVars, outcarVars, laterVars>>

SpecKpt == InitKpt /\ [][NextKpt]_vars

(***************************************************************************)
(* Claims about the k-point estimator (checked under SpecKpt).             *)
(***************************************************************************)
\* n = max(1, ceil(sqrt(q)*dens + 1/2)), stated by its two bounds.
IsFlooredCeiling(n, q, dens) ==
    /\ n >= 1
    /\ AtLeast(n, q, dens)
    /\ n > 1 => ~AtLeast(n - 1, q, dens)

Cubic == \E a \in 1..(MaxEdge + 1) : basis = Diag(a, a, a)

\* C9: calculate_kpoints fails with the singular-cell error for every
\* basis of determinant zero, and otherwise returns three integers, each at
\* least 1 and the i-th equal to max(1, ceil(|b*_i| * density + 0.5)) for
\* the i-th reciprocal vector b*_i; a cubic cell gives three equal
\* components, and a larger density never gives a smaller component.
C9_Kpoints ==
    \A d \in Densities : kpts[d].called =>
        IF Det3(basis) = 0
        THEN ~kpts[d].ok /\ kpts[d].exc = ErrSingular
        ELSE /\ kpts[d].ok
             /\ Len(kpts[d].mesh) = 3
             /\ \A i \in 1..3 :
                  IsFlooredCeiling(kpts[d].mesh[i], RecipLengthSqr(basis, i), d)
             /\ Cubic => kpts[d].mesh[1] = kpts[d].mesh[2]
                         /\ kpts[d].mesh[2] = kpts[d].mesh[3]
             /\ \A e \in Densities : (kpts[e].called /\ d <= e) =>
                  \A i \in 1..3 : kpts[d].mesh[i] <= kpts[e].mesh[i]

\* Witness of C9: a cell with edges 1, 2, 3 was estimated at densities 3
\* and 20: meshes (4, 2, 2) and (21, 11, 8).
C9_Witness ==
    /\ basis = Diag(1, 2, 3)
    /\ kpts[3].called /\ kpts[3].mesh = <<4, 2, 2>>
    /\ kpts[20].called /\ kpts[20].mesh = <<21, 11, 8>>

(***************************************************************************)
(* The OUTCAR scan.  micro_pyawk hands every line of the stream to every   *)
(* rule in order and calls the action of each rule whose pattern is found  *)
(* in the line.  The two patterns are matched character by character.      *)
(***************************************************************************)
\* The first position from i on that holds no blank (Len(s)+1: none).
SkipBlanks(s, i) ==
    CHOOSE j \in i..(Len(s) + 1) :
        /\ j = Len(s) + 1 \/ s[j] # SP
        /\ \A k \in i..(j - 1) : s[k] = SP

\* The position after lit when s holds lit at i; 0 when it does not.
Literal(s, i, lit) ==
    IF i >= 1 /\ i + Len(lit) - 1 <= Len(s) /\ SubSeq(s, i, i + Len(lit) - 1) = lit
    THEN i + Len(lit) ELSE 0

\* The end of the run of characters other than blanks starting at i.
NonBlankEnd(s, i) ==
    CHOOSE j \in (i - 1)..Len(s) :
        /\ \A k \in i..j : s[k] # SP
        /\ j = Len(s) \/ s[j + 1] = SP

\* "^ *energy *without *entropy= *([^ ]+) *energy\(sigma->0\) *= *([^ ]+) *$"
\* The match with its two groups; the first group is as long as a match of
\* the rest allows.
MatchEnergy(s) ==
    LET a == Literal(s, SkipBlanks(s, 1), <<"e", "n", "e", "r", "g", "y">>)
        b == IF a = 0 THEN 0 ELSE Literal(s, SkipBlanks(s, a), <<"w", "i", "t", "h", "o", "u", "t">>)
        c == IF b = 0 THEN 0 ELSE Literal(s, SkipBlanks(s, b), <<"e", "n", "t", "r", "o", "p", "y", "=">>)
        g1 == IF c = 0 THEN 0 ELSE SkipBlanks(s, c)
        rest(e1) ==
            LET d == Literal(s, SkipBlanks(s, e1 + 1), <<"e", "n", "e", "r", "g", "y", "(", "s", "i", "g", "m", "a", "-", ">", "0", ")">>)
                e == IF d = 0 THEN 0 ELSE Literal(s, SkipBlanks(s, d), <<"=">>)
                g2 == IF e = 0 THEN 0 ELSE SkipBlanks(s, e)
                e2 == IF e = 0 THEN 0 ELSE NonBlankEnd(s, g2)
            IN  [ok |-> e # 0 /\ e2 >= g2 /\ SkipBlanks(s, e2 + 1) = Len(s) + 1,
                 from |-> g2, to |-> e2]
        ends == IF c = 0 THEN {}
                ELSE {e1 \in g1..NonBlankEnd(s, g1) : rest(e1).ok}
    IN  IF ends = {}
        THEN [matched |-> FALSE, group1 |-> <<>>, group2 |-> <<>>]
        ELSE LET e1 == CHOOSE x \in ends : \A y \in ends : y <= x
             IN  [matched |-> TRUE,
                  group1 |-> SubSeq(s, g1, e1),
                  group2 |-> SubSeq(s, rest(e1).from, rest(e1).to)]

\* "FREE ENERGIE" is found somewhere in the line.
MatchFreeEnergie(s) ==
    \E i \in 1..Len(s) : Literal(s, i, <<"F", "R", "E", "E", " ", "E", "N", "E", "R", "G", "I", "E">>) # 0

\* One line through both rules: read_energy sets two attributes of the
\* reader, set_final sets results['final'].
ScanLine(state, line) ==
    LET m == MatchEnergy(line)
        attrs == IF m.matched
                 THEN [a \in DOMAIN state.attrs
                            \cup {"final_energy_with_entropy", "final_energy"} |->
                          IF a = "final_energy_with_entropy" THEN m.group1
                          ELSE IF a = "final_energy" THEN m.group2
                          ELSE state.attrs[a]]
                 ELSE state.attrs
        results == IF MatchFreeEnergie(line)
                   THEN [state.results EXCEPT !.final = TRUE]
                   ELSE state.results
    IN  [attrs |-> attrs, results |-> results]

RECURSIVE micro_pyawk(_, _)
micro_pyawk(state, lines) ==
    IF lines = <<>> THEN state
    ELSE micro_pyawk(ScanLine(state, Head(lines)), Tail(lines))

\* OutcarReader(ioa): the attributes of the object after __init__, which
\* calls parse.  results is a local of parse.
OutcarReader_parse(lines) ==
    LET scanned == micro_pyawk([attrs |-> <<>>, results |-> [final |-> FALSE]], lines)
    IN  [a \in DOMAIN scanned.attrs \cup {"parsed"} |->
            IF a = "parsed" THEN TRUE ELSE scanned.attrs[a]]

MaxLines == 3

\* The lines a stream is made of, each with what it holds: xy is <<>> or
\* <<X, Y>> of an energy line, marker says whether FREE ENERGIE occurs.
OutcarLines ==
    {[text |-> <<" ", " ", "e", "n", "e", "r", "g", "y", " ", " ", "w", "i", "t", "h", "o", "u", "t", " ", "e", "n", "t", "r", "o", "p", "y", "=", " ", " ", " ", " ", " ", "-", "1", "0", ".", "5", " ", " ", "e", "n", "e", "r", "g", "y", "(", "s", "i", "g", "m", "a", "-", ">", "0", ")", " ", "=", " ", " ", " ", " ", " ", "-", "1", "0", ".", "7">>,
      xy |-> <<<<"-", "1", "0", ".", "5">>, <<"-", "1", "0", ".", "7">>>>, marker |-> FALSE],
     [text |-> <<"e", "n", "e", "r", "g", "y", " ", "w", "i", "t", "h", "o", "u", "t", " ", "e", "n", "t", "r", "o", "p", "y", "=", "-", "9", ".", "1", "e", "n", "e", "r", "g", "y", "(", "s", "i", "g", "m", "a", "-", ">", "0", ")", "=", "-", "9", ".", "3", " ">>,
      xy |-> <<<<"-", "9", ".", "1">>, <<"-", "9", ".", "3">>>>, marker |-> FALSE],
     [text |-> <<" ", " ", "F", "R", "E", "E", " ", "E", "N", "E", "R", "G", "I", "E", " ", "O", "F", " ", "T", "H", "E", " ", "I", "O", "N", "-", "E", "L", "E", "C", "T", "R", "O", "N", " ", "S", "Y", "S", "T", "E", "M", " ", "(", "e", "V", ")">>,
      xy |-> <<>>, marker |-> TRUE],
     [text |-> <<" ", " ", "f", "r", "e", "e", " ", " ", "e", "n", "e", "r", "g", "y", " ", " ", " ", "T", "O", "T", "E", "N", " ", " ", "=", " ", " ", " ", " ", " ", " ", " ", "-", "1", "0", ".", "6", " ", "e", "V">>,
      xy |-> <<>>, marker |-> FALSE],
     [text |-> <<" ", " ", "e", "n", "e", "r", "g", "y", " ", " ", "w", "i", "t", "h", "o", "u", "t", " ", "e", "n", "t", "r", "o", "p", "y", " ", "=", " ", " ", "-", "1", ".", "0", " ", " ", "e", "n", "e", "r", "g", "y", "(", "s", "i", "g", "m", "a", "-", ">", "0", ")", " ", "=", " ", " ", "-", "1", ".", "2">>,
      xy |-> <<>>, marker |-> FALSE],
     [text |-> <<" ", " ", "e", "n", "e", "r", "g", "y", " ", " ", "w", "i", "t", "h", "o", "u", "t", " ", "e", "n", "t", "r", "o", "p", "y", "=", " ", " ", "-", "2", ".", "0", " ", " ", "e", "n", "e", "r", "g", "y", "(", "s", "i", "g", "m", "a", "-", ">", "0", ")", " ", "=", " ", " ", "-", "2", ".", "2", " ", "e", "V">>,
      xy |-> <<>>, marker |-> FALSE]}

Streams == UNION {[1..n -> OutcarLines] : n \in 0..MaxLines}

InitScan ==
    /\ stream \in Streams
    /\ reader = <<>>

\* read_outcar(ioa): constructs the reader, which scans the whole stream.
ReadOutcar ==
    /\ DOMAIN reader = {}
    /\ reader' = OutcarReader_parse([i \in 1..Len(stream) |-> stream[i].text])
    /\ UNCHANGED stream

InitOutcar == InitCodecVars /\ InitMagVars /\ InitPPVars /\ InitKptVars /\ InitScan /\ InitLaterVars

NextOutcar ==
    \/ ReadOutcar /\ UNCHANGED <<codecVars, magVars, ppVars, kptVars, laterVars>>

SpecOutcar == InitOutcar /\ [][NextOutcar]_vars

(***************************************************************************)
(* Claims about the OUTCAR scan (checked under SpecOutcar).                *)
(***************************************************************************)
Scanned == DOMAIN reader # {}

EnergyPositions == {i \in 1..Len(stream) : stream[i].xy # <<>>}

LastEnergy == stream[CHOOSE i \in EnergyPositions : \A j \in EnergyPositions : j <= i]

\* The energies part of C10: final_energy_with_entropy and final_energy are
\* X and Y of the last energy line, and are unset when there is none.
EnergiesOfLastMatch ==
    IF EnergyPositions = {}
    THEN "final_energy" \notin DOMAIN reader
         /\ "final_energy_with_entropy" \notin DOMAIN reader
    ELSE /\ "final_energy" \in DOMAIN reader
         /\ "final_energy_with_entropy" \in DOMAIN reader
         /\ reader["final_energy_with_entropy"] = LastEnergy.xy[1]
         /\ reader["final_energy"] = LastEnergy.xy[2]

\* C10: after OutcarReader scans a stream, the reader reports final = True
\* exactly when some line contained the FREE ENERGIE marker and False
\* otherwise; final_energy_with_entropy and final_energy are X and Y of
\* the last matching energy line; with no such lines both energies are
\* unset and final = False.
C10_ScanResult ==
    Scanned =>
        /\ "final" \in DOMAIN reader
        /\ reader["final"] = (\E i \in 1..Len(stream) : stream[i].marker)
        /\ EnergiesOfLastMatch

(***************************************************************************)
(* parse_outcar: the scan of a bz2-compressed OUTCAR for the facts needed  *)
(* to reproduce the calculation.  A field of calc_info is <<>> for None    *)
(* and <<v>> for the value v; Potentials is a list.                        *)
(***************************************************************************)
earlierVars == <<codecVars, magVars, ppVars, kptVars, outcarVars>>

InitEarlierVars ==
    InitCodecVars /\ InitMagVars /\ InitPPVars /\ InitKptVars /\ InitOutcarVars

\* re.search(lit, s) for a pattern without metacharacters, and the test
\* "lit in s" on strings.
Search(s, lit) == \E i \in 1..(Len(s) + 1) : Literal(s, i, lit) # 0

\* re.search('vasp\.\d\.\d\.\d\S+', s)
SearchVasp(s) ==
    \E i \in 1..Len(s) :
        /\ Literal(s, i, <<"v", "a", "s", "p", ".">>) # 0
        /\ i + 10 <= Len(s)
        /\ s[i + 5] \in DigitChars /\ s[i + 6] = "."
        /\ s[i + 7] \in DigitChars /\ s[i + 8] = "."
        /\ s[i + 9] \in DigitChars /\ ~IsSpace(s[i + 10])

\* re.search('POTCAR\S+', s)
SearchPotcar(s) ==
    \E i \in 1..Len(s) :
        /\ Literal(s, i, <<"P", "O", "T", "C", "A", "R">>) # 0
        /\ i + 6 <= Len(s) /\ ~IsSpace(s[i + 6])

\* str.split('.')
RECURSIVE SplitDots(_)
SplitDots(s) ==
    IF \E k \in 1..Len(s) : s[k] = "."
    THEN LET k == CHOOSE i \in 1..Len(s) :
                      s[i] = "." /\ \A j \in 1..(i - 1) : s[j] # "."
         IN  <<SubSeq(s, 1, k - 1)>> \o SplitDots(SubSeq(s, k + 1, Len(s)))
    ELSE <<s>>

\* sep.join(parts)
RECURSIVE Join(_, _)
Join(sep, parts) ==
    IF parts = <<>> THEN <<>>
    ELSE IF Len(parts) = 1 THEN parts[1]
    ELSE parts[1] \o sep \o Join(sep, Tail(parts))

\* The slice xs[a:b] of Python for 0 <= a <= b, and xs[-2:].
Slice(xs, a, b) ==
    SubSeq(xs, (IF a < Len(xs) THEN a ELSE Len(xs)) + 1, IF b < Len(xs) THEN b ELSE Len(xs))

LastTwo(xs) == IF Len(xs) <= 2 THEN xs ELSE SubSeq(xs, Len(xs) - 1, Len(xs))

\* int(a/b) for an int a and a positive int b: true division, then
\* truncation toward zero.
IntOfQuotient(a, b) == IF a >= 0 THEN a \div b ELSE -((-a) \div b)

InList(x, xs) == \E i \in 1..Len(xs) : xs[i] = x

calc_info_fields ==
    {"Code", "Version", "Build", "ENCUT", "NKPTS", "XC", "Potentials", "Date",
     "Time", "Elapsed", "System", "Nodes", "Cores"}

EmptyCalcInfo == [k \in calc_info_fields |-> <<>>]

\* "None in calc_info.values()": Potentials is a list and never None.
HasNone(info) == \E k \in calc_info_fields \ {"Potentials"} : info[k] = <<>>

Lumi == <<"L", "u", "m", "i">>
Dardel == <<"D", "a", "r", "d", "e", "l">>
Tetralith == <<"T", "e", "t", "r", "a", "l", "i", "t", "h">>
Sigma == <<"S", "i", "g", "m", "a">>

KnownSystems == {Lumi, Dardel, Tetralith, Sigma}

system_cpn(name) ==
    CASE name = Lumi -> 128
      [] name = Dardel -> 128
      [] name = Tetralith -> 32
      [] name = Sigma -> 32

\* The steps of the loop body of parse_outcar, in order.  st is
\* [info, err]: the dictionary so far and the exception raised ("" none);
\* a step does nothing once an exception is raised.
Raise(st, e) == [st EXCEPT !.err = e]

Put(st, k, v) == [st EXCEPT !.info[k] = <<v>>]

StepCode(st, line) ==
    IF st.err # "" \/ st.info["Code"] # <<>> \/ ~SearchVasp(line) THEN st
    ELSE LET data == SplitDots(Split(line)[1])
         IN  IF data[1] # <<"v", "a", "s", "p">> THEN st
             ELSE Put(Put(Put(st, "Code", <<"V", "A", "S", "P">>),
                          "Version", Join(<<".">>, Slice(data, 1, 4))),
                      "Build", data[Len(data)])

StepPotentials(st, line) ==
    IF st.err # "" \/ ~SearchPotcar(line) THEN st
    ELSE LET pot == Join(<<SP>>, LastTwo(Split(line)))
         IN  IF InList(pot, st.info["Potentials"]) THEN st
             ELSE [st EXCEPT !.info["Potentials"] = Append(@, pot)]

StepSystem(st, line) ==
    IF st.err # "" \/ st.info["System"] # <<>> \/ ~Search(line, <<"e", "x", "e", "c", "u", "t", "e", "d", " ", "o", "n">>) THEN st
    ELSE LET data == Split(line)
         IN  IF Len(data) < 3 THEN Raise(st, "IndexError")
             ELSE LET system == IF Search(data[3], <<"L", "U", "M", "I">>) THEN Lumi
                                ELSE IF Search(data[3], <<"T", "E", "T", "R", "A", "L", "I", "T", "H">>) THEN Tetralith
                                ELSE data[3]
                  IN  IF Len(data) < 5 THEN Raise(Put(st, "System", system), "IndexError")
                      ELSE Put(Put(Put(st, "System", system), "Date", data[5]),
                               "Time", data[Len(data)])

StepXC(st, line) ==
    IF st.err # "" \/ st.info["XC"] # <<>> \/ ~Search(line, <<"L", "E", "X", "C", "H">>) THEN st
    ELSE LET data == Split(line) IN Put(st, "XC", data[Len(data)])

StepCores(st, line) ==
    IF st.err # "" \/ st.info["Cores"] # <<>> \/ ~Search(line, <<"r", "u", "n", "n", "i", "n", "g", " ", "o", "n">>) THEN st
    ELSE LET data == Split(line)
         IN  IF Len(data) < 3 THEN Raise(st, "IndexError")
             ELSE IF ~PyInt(data[3]).ok THEN Raise(st, "ValueError")
             ELSE Put(st, "Cores", PyInt(data[3]).val)

\* The float is kept as the token it was read from.
StepEncut(st, line) ==
    IF st.err # "" \/ st.info["ENCUT"] # <<>> \/ ~Search(line, <<"E", "N", "C", "U", "T">>) THEN st
    ELSE LET data == Split(line)
         IN  IF Len(data) < 3 THEN Raise(st, "IndexError")
             ELSE IF ~PyFloat(data[3]).ok THEN Raise(st, "ValueError")
             ELSE Put(st, "ENCUT", data[3])

StepNkpts(st, line) ==
    IF st.err # "" \/ st.info["NKPTS"] # <<>> \/ ~Search(line, <<"N", "K", "P", "T", "S">>) THEN st
    ELSE LET data == Split(line)
         IN  IF Len(data) < 4 THEN Raise(st, "IndexError")
             ELSE IF ~PyInt(data[4]).ok THEN Raise(st, "ValueError")
             ELSE Put(st, "NKPTS", PyInt(data[4]).val)

StepElapsed(st, line) ==
    IF st.err # "" \/ st.info["Elapsed"] # <<>> \/ ~Search(line, <<"E", "l", "a", "p", "s", "e", "d", " ", "t", "i", "m", "e">>) THEN st
    ELSE LET data == Split(line)
         IN  IF ~PyFloat(data[Len(data)]).ok THEN Raise(st, "ValueError")
             ELSE Put(st, "Elapsed", data[Len(data)])

\* system_cpn[calc_info['System']] is a KeyError for a name outside the
\* table.
StepNodes(st) ==
    IF st.err # "" \/ st.info["Cores"] = <<>> \/ st.info["System"] = <<>> THEN st
    ELSE IF st.info["System"][1] \notin KnownSystems THEN Raise(st, "KeyError")
    ELSE Put(st, "Nodes",
             IntOfQuotient(st.info["Cores"][1], system_cpn(st.info["System"][1])))

ScanInfoLine(st, line) ==
    StepNodes(StepElapsed(StepNkpts(StepEncut(StepCores(StepXC(StepSystem(
        StepPotentials(StepCode(st, line), line), line), line), line), line),
        line), line))

\* The loop over the lines: it ends at the end of the file, at the first
\* line read when no field is None any more, and at an exception.
RECURSIVE ScanInfo(_, _)
ScanInfo(st, lines) ==
    IF lines = <<>> \/ st.err # "" \/ ~HasNone(st.info) THEN st
    ELSE ScanInfo(ScanInfoLine(st, Head(lines)), Tail(lines))

\* parse_outcar(path) for a file [compressed, text]: bz2.open reads only
\* bz2 data and raises OSError on anything else.
parse_outcar(file) ==
    IF ~file.compressed
    THEN [info |-> [EmptyCalcInfo EXCEPT !["Potentials"] = <<>>], err |-> "OSError"]
    ELSE ScanInfo([info |-> EmptyCalcInfo, err |-> ""], LinesOf(file.text))

\* The OUTCAR files parse_outcar is given.  The host token of the
\* "executed on" line and the core count of the "running on" line vary; the
\* layouts are the full header in VASP's order with a line after it, the
\* two lines alone in both orders, and an "executed on" line cut short.
Hosts ==
    {<<"L", "U", "M", "I">>, <<"n", "i", "d", "-", "L", "U", "M", "I", "-", "c">>, Lumi, <<"l", "u", "m", "i">>, <<"T", "E", "T", "R", "A", "L", "I", "T", "H">>, Tetralith,
     <<"D", "A", "R", "D", "E", "L">>, Dardel, <<"D", "a", "r", "d", "e", "l", "-", "c", "p", "u">>, <<"S", "I", "G", "M", "A">>, Sigma, <<"L", "i", "n", "u", "x", "I", "F", "C">>}

CoreCounts == {16, 32, 100, 128, 256}

Layouts == {"full", "pair", "swapped", "short"}

ExecutedOnLine(host) == <<" ", "e", "x", "e", "c", "u", "t", "e", "d", " ", "o", "n", " ", " ", " ">> \o host \o <<" ", "d", "a", "t", "e", " ", "2", "0", "2", "4", ".", "0", "1", ".", "3", "1", " ", " ", "1", "0", ":", "2", "0", ":", "3", "0">>

RunningOnLine(cores) == <<" ", "r", "u", "n", "n", "i", "n", "g", " ", "o", "n", " ", " ", " ">> \o NatToStr(cores) \o <<" ", "t", "o", "t", "a", "l", " ", "c", "o", "r", "e", "s">>

OutcarText(host, cores, layout) ==
    LET lines ==
          CASE layout = "full" ->
                 <<<<" ", "v", "a", "s", "p", ".", "5", ".", "4", ".", "4", ".", "1", "8", "A", "p", "r", "1", "7", "-", "6", "-", "g", "9", "f", "1", "0", "3", "f", "2", " ", "(", "b", "u", "i", "l", "d", " ", "O", "c", "t", " ", "0", "9", " ", "2", "0", "1", "8", ")", " ", "c", "o", "m", "p", "l", "e", "x">>,
                   ExecutedOnLine(host),
                   RunningOnLine(cores),
                   <<" ", "P", "O", "T", "C", "A", "R", ":", " ", " ", " ", " ", "P", "A", "W", "_", "P", "B", "E", " ", "F", "e", " ", "0", "6", "S", "e", "p", "2", "0", "0", "0">>,
                   <<" ", " ", " ", "E", "N", "C", "U", "T", " ", " ", "=", " ", " ", "6", "0", "0", ".", "0", " ", "e", "V">>,
                   <<" ", " ", " ", "k", "-", "p", "o", "i", "n", "t", "s", " ", " ", " ", " ", "N", "K", "P", "T", "S", " ", "=", " ", " ", " ", " ", " ", "2", "0", " ", " ", " ", "k", "-", "p", "o", "i", "n", "t", "s", " ", "i", "n", " ", "B", "Z">>,
                   <<" ", " ", " ", "L", "E", "X", "C", "H", " ", " ", " ", "=", " ", " ", " ", " ", " ", "P", "E">>,
                   <<" ", "E", "l", "a", "p", "s", "e", "d", " ", "t", "i", "m", "e", " ", "(", "s", "e", "c", ")", ":", " ", " ", " ", "1", "2", ".", "5">>,
                   <<" ", "V", "o", "l", "u", "n", "t", "a", "r", "y", " ", "c", "o", "n", "t", "e", "x", "t", " ", "s", "w", "i", "t", "c", "h", "e", "s", ":", " ", "7">>>>
            [] layout = "pair" -> <<ExecutedOnLine(host), RunningOnLine(cores)>>
            [] layout = "swapped" -> <<RunningOnLine(cores), ExecutedOnLine(host)>>
            [] layout = "short" -> <<<<" ", "e", "x", "e", "c", "u", "t", "e", "d", " ", "o", "n", " ", " ", " ">> \o host, RunningOnLine(cores)>>
    IN  Concat([i \in 1..Len(lines) |-> lines[i] \o <<NL>>])

InitOutcarFile ==
    /\ \E host \in Hosts, cores \in CoreCounts, layout \in Layouts,
          compressed \in BOOLEAN :
         outcar = [host |-> host, cores |-> cores, layout |-> layout,
                   compressed |-> compressed,
                   text |-> OutcarText(host, cores, layout)]
    /\ calc_info = <<>>

\* calc_info = <<>> : parse_outcar has not been called.
ParseOutcar ==
    /\ calc_info = <<>>
    /\ calc_info' = parse_outcar(outcar)
    /\ UNCHANGED outcar

InitInfo ==
    /\ InitEarlierVars
    /\ InitOutcarFile /\ InitResultVars /\ InitPrepVars /\ InitVersionVars

NextInfo ==
    \/ ParseOutcar /\ UNCHANGED <<earlierVars, resultVars, prepVars, versionVars>>

SpecInfo == InitInfo /\ [][NextInfo]_vars

(***************************************************************************)
(* Claim about parse_outcar (checked under SpecInfo).                      *)
(***************************************************************************)
\* The spellings under which a line names a known system: the name as the
\* table has it and in capitals, as the scan itself looks for LUMI and
\* TETRALITH.
Capitals(name) ==
    CASE name = Lumi -> <<"L", "U", "M", "I">>
      [] name = Dardel -> <<"D", "A", "R", "D", "E", "L">>
      [] name = Tetralith -> <<"T", "E", "T", "R", "A", "L", "I", "T", "H">>
      [] name = Sigma -> <<"S", "I", "G", "M", "A">>

\* The "executed on" line names the system: its host token contains the
\* name.
Names(host, name) == Search(host, name) \/ Search(host, Capitals(name))

InfoParsed == calc_info # <<>> /\ outcar.compressed /\ outcar.layout # "short"

\* C11: for an OUTCAR whose "executed on" line names a known execution
\* system and whose "running on" line gives the core count, parse_outcar
\* completes without error and returns System as that known name, Cores as
\* the count, and Nodes as Cores divided by the system's cores per node.
C11_HostClassification ==
    \A name \in KnownSystems :
        (InfoParsed /\ Names(outcar.host, name)) =>
            /\ calc_info.err = ""
            /\ calc_info.info["System"] = <<name>>
            /\ calc_info.info["Cores"] = <<outcar.cores>>
            /\ calc_info.info["Nodes"] = <<outcar.cores \div system_cpn(name)>>

\* What does hold: the classification is right when the host token is the
\* table's name itself or contains LUMI or TETRALITH in capitals.
C11_ExactNames ==
    \A name \in KnownSystems :
        (InfoParsed /\ (outcar.host = name
                          \/ (name \in {Lumi, Tetralith}
                                /\ Search(outcar.host, Capitals(name))))) =>
            /\ calc_info.err = ""
            /\ calc_info.info["System"] = <<name>>
            /\ calc_info.info["Cores"] = <<outcar.cores>>
            /\ calc_info.info["Nodes"] = <<outcar.cores \div system_cpn(name)>>

(***************************************************************************)
(* The result assembler: poscar_to_structure, generate_computation,        *)
(* generate_result, clean_and_compress and httkify.  A file of the         *)
(* calculation directory is [present, text], the OUTCAR also has its name  *)
(* (OUTCAR or OUTCAR.bz2) and is compressed exactly under the second.  An  *)
(* optional value is <<>> for None and <<v>> for v.  A call returns        *)
(* [kind |-> "value", ...], [kind |-> "None"], [kind |-> "raise", err] or  *)
(* [kind |-> "exit"].                                                      *)
(***************************************************************************)
Raised(e) == [kind |-> "raise", err |-> e]

ReturnedNone == [kind |-> "None"]

\* poscar_to_structure(f, included_decimals) for a file: the arguments
\* Structure.create is given.  The cell and the coordinates are kept as the
\* tokens FracVector.create is given; converted says that the coordinates
\* went through cartesian_to_reduced.
poscar_to_structure(file, included_decimals) ==
    IF ~file.present THEN Raised("IOError")
    ELSE LET create(r) ==
                 IF ~r.ok THEN Raised(r.err)
                 ELSE [kind |-> "value",
                       struct |-> [uc_basis |-> r.cell,
                                   uc_volume |-> r.vol,
                                   uc_scale |-> r.scale,
                                   uc_reduced_coords |-> r.coords,
                                   converted |-> r.coords_reduced,
                                   uc_counts |-> r.counts,
                                   assignments |-> r.occupations,
                                   comment |-> r.comment]]
         IN  create(poscar_to_strs(file.text, included_decimals))

\* httk.task.reader.read_manifest on ht.manifest.bz2: the four opaque
\* values, or IOError when the file is not there.
read_manifest(dir) ==
    IF dir.manifest
    THEN [kind |-> "value", manifest_hash |-> "hash", signatures |-> "signatures",
          project_key |-> "project_key", keys |-> "keys"]
    ELSE Raised("IOError")

\* generate_computation(path).  info is bound only when the directory has
\* an OUTCAR; ' '.join([Date, Time]) is a TypeError when either is None.
generate_computation(dir) ==
    LET create(parsedinfo, manifest) ==
            IF dir.outcar.present /\ parsedinfo.err # "" THEN Raised(parsedinfo.err)
            ELSE IF manifest.kind = "raise" THEN manifest
            ELSE IF ~dir.outcar.present THEN Raised("UnboundLocalError")
            ELSE LET info == parsedinfo.info
                 IN  IF info["Date"] = <<>> \/ info["Time"] = <<>> THEN Raised("TypeError")
                     ELSE [kind |-> "value",
                           computation |->
                              [computation_date |-> info["Date"][1] \o <<SP>> \o info["Time"][1],
                               code |-> <<info["Code"], info["Version"]>>,
                               manifest_hash |-> manifest.manifest_hash,
                               signatures |-> manifest.signatures,
                               keys |-> manifest.keys,
                               project_counter |-> 0,
                               tags |-> info]]
    IN  create(parse_outcar(dir.outcar), read_manifest(dir))

\* The first loop of generate_result for the OUTCAR: final_energy, or the
\* exception of float(outcar.final_energy).
ReadFinalEnergy(dir) ==
    LET energy(r) ==
            IF "final_energy" \notin DOMAIN r THEN Raised("AttributeError")
            ELSE IF ~PyFloat(r["final_energy"]).ok THEN Raised("ValueError")
            ELSE [kind |-> "value", final_energy |-> r["final_energy"]]
    IN  energy(OutcarReader_parse(LinesOf(dir.outcar.text)))

\* generate_result(path): the set of its possible outcomes.  os.listdir
\* gives the files in no particular order, so when both the OUTCAR and the
\* CONTCAR make the loop raise, either exception may be the one.
generate_result(dir) ==
    LET outcome(energy, contcar, fallback, computation) ==
            LET loopRaises ==
                    (IF dir.outcar.present /\ energy.kind = "raise" THEN {energy} ELSE {})
                    \cup (IF dir.contcar.present /\ contcar.kind = "raise" THEN {contcar} ELSE {})
                struct == IF dir.contcar.present THEN <<contcar.struct>> ELSE <<>>
            IN  IF loopRaises # {} THEN loopRaises
                ELSE IF struct = <<>> /\ fallback.kind = "raise" THEN {ReturnedNone}
                ELSE IF computation.kind = "raise" THEN {computation}
                ELSE IF ~dir.outcar.present THEN {Raised("UnboundLocalError")}
                ELSE {[kind |-> "value",
                       result |-> [computation |-> computation.computation,
                                   structure |-> struct,
                                   total_energy |-> energy.final_energy]]}
    IN  outcome(ReadFinalEnergy(dir), poscar_to_structure(dir.contcar, <<5>>),
                poscar_to_structure(dir.poscar, <<5>>), generate_computation(dir))

\* rm of one file of the directory, by its exact name.
RemoveFile(dir, name) ==
    CASE name = "POSCAR" -> [dir EXCEPT !.poscar.present = FALSE]
      [] name = "CONTCAR" -> [dir EXCEPT !.contcar.present = FALSE]
      [] name = dir.outcar.name -> [dir EXCEPT !.outcar.present = FALSE]
      [] OTHER -> dir

RECURSIVE RemoveFiles(_, _)
RemoveFiles(dir, remove) ==
    IF remove = <<>> THEN dir
    ELSE RemoveFiles(RemoveFile(dir, Head(remove)), Tail(remove))

\* The shell functions VASP_CLEAN_OUTCAR and HT_TASK_COMPRESS, followed by
\* the removal of clean.sh.bz2 and OUTCAR.bz2: the OUTCAR is left cleaned
\* and compressed, with the lines the assembler reads.
CleanScript(dir) ==
    [dir EXCEPT !.outcar.name = "OUTCAR.cleaned.bz2", !.outcar.compressed = TRUE]

\* clean_and_compress(path, remove): the directory afterwards and whether
\* the clean script ran, which it does when a file named OUTCAR is there.
clean_and_compress(dir, remove) ==
    LET removed == RemoveFiles(dir, remove)
        run == removed.outcar.present /\ removed.outcar.name = "OUTCAR"
    IN  [dir |-> IF run THEN CleanScript(removed) ELSE removed, cleaned |-> run]

StandardKeys == "ht.project/keys"

\* httk.core.crypto.read_keys(keydir): the key pair, or IOError.
read_keys(dir, keydir) ==
    IF keydir \in dir.keys THEN [kind |-> "value", sk |-> "sk", pk |-> "pk"]
    ELSE Raised("IOError")

\* httkify(path, remove, keypath): the set of possible outcomes, each with
\* the directory afterwards and what was done to it.  With keypath None
\* the keys are read from the standard path and the function ends there.
httkify(dir, remove, keypath) ==
    IF keypath = <<>>
    THEN {[dir |-> dir, cleaned |-> FALSE, manifest_written |-> FALSE,
           ret |-> IF read_keys(dir, StandardKeys).kind = "raise"
                   THEN [kind |-> "exit"] ELSE ReturnedNone]}
    ELSE LET cc == clean_and_compress(dir, remove)
             opened == [cc.dir EXCEPT !.manifest = TRUE]
         IN  IF read_keys(opened, keypath[1]).kind = "raise"
             THEN {[dir |-> opened, cleaned |-> cc.cleaned, manifest_written |-> FALSE,
                    ret |-> Raised("IOError")]}
             ELSE {[dir |-> opened, cleaned |-> cc.cleaned, manifest_written |-> TRUE,
                    ret |-> r] : r \in generate_result(opened)}

\* The calculation directories.
EnergyLine == <<" ", " ", "e", "n", "e", "r", "g", "y", " ", " ", "w", "i", "t", "h", "o", "u", "t", " ", "e", "n", "t", "r", "o", "p", "y", "=", " ", " ", " ", " ", " ", " ", "-", "1", "0", ".", "5", " ", " ", "e", "n", "e", "r", "g", "y", "(", "s", "i", "g", "m", "a", "-", ">", "0", ")", " ", "=", " ", " ", " ", " ", " ", " ", "-", "1", "0", ".", "7">>

FreeEnergieLine == <<" ", " ", "F", "R", "E", "E", " ", "E", "N", "E", "R", "G", "I", "E", " ", "O", "F", " ", "T", "H", "E", " ", "I", "O", "N", "-", "E", "L", "E", "C", "T", "R", "O", "N", " ", "S", "Y", "S", "T", "E", "M", " ", "(", "e", "V", ")">>

RunOutcarText(host, energy) ==
    (IF host = <<>> THEN <<>>
     ELSE ExecutedOnLine(host[1]) \o <<NL>> \o RunningOnLine(64) \o <<NL>>)
    \o FreeEnergieLine \o <<NL>>
    \o (IF energy THEN EnergyLine \o <<NL>> ELSE <<>>)

NoFile == [present |-> FALSE, text |-> <<>>]

RunOutcars ==
    {[present |-> FALSE, name |-> "OUTCAR", compressed |-> FALSE, text |-> <<>>]}
    \cup {[present |-> TRUE, name |-> n, compressed |-> (n = "OUTCAR.bz2"),
           text |-> RunOutcarText(host, energy)] :
             n \in {"OUTCAR", "OUTCAR.bz2"},
             host \in {<<>>, <<<<"L", "U", "M", "I">>>>, <<<<"D", "A", "R", "D", "E", "L">>>>},
             energy \in BOOLEAN}

RunPoscar(scaleTok, coordtype) ==
    [present |-> TRUE,
     text |-> ExternalPoscar([pad |-> <<>>, scaleTok |-> scaleTok,
                              symbolsLine |-> <<<<"F", "e", " ", "O">>>>, sdLine |-> <<>>,
                              coordtype |-> coordtype, nrows |-> 2])]

RunContcars == {NoFile, RunPoscar(<<"0", ".", "5">>, <<"D", "i", "r", "e", "c", "t">>), RunPoscar(<<"x">>, <<"D", "i", "r", "e", "c", "t">>)}

RunPoscars ==
    {NoFile, RunPoscar(<<"1">>, <<"D", "i", "r", "e", "c", "t">>), RunPoscar(<<"-", "8">>, <<"C", "a", "r", "t", "e", "s", "i", "a", "n">>),
     RunPoscar(<<"x">>, <<"D", "i", "r", "e", "c", "t">>)}

GivenKeys == "mykeys"

InitRunDir ==
    /\ rundir \in [outcar : RunOutcars, contcar : RunContcars, poscar : RunPoscars,
                   manifest : BOOLEAN, keys : SUBSET {StandardKeys, GivenKeys}]
    /\ assembled = <<>>

\* assembled = <<>> : nothing has been called yet.
GenerateResult ==
    /\ assembled = <<>>
    /\ \E r \in generate_result(rundir) :
         assembled' = [op |-> "generate_result", keypath |-> <<>>, remove |-> <<>>,
                       before |-> rundir, cleaned |-> FALSE,
                       manifest_written |-> FALSE, ret |-> r]
    /\ UNCHANGED rundir

Httkify ==
    /\ assembled = <<>>
    /\ \E keypath \in {<<>>, <<GivenKeys>>}, remove \in {<<>>, <<"POSCAR">>} :
         \E out \in httkify(rundir, remove, keypath) :
            /\ assembled' = [op |-> "httkify", keypath |-> keypath, remove |-> remove,
                             before |-> rundir, cleaned |-> out.cleaned,
                             manifest_written |-> out.manifest_written,
                             ret |-> out.ret]
            /\ rundir' = out.dir

InitResult ==
    /\ InitEarlierVars
    /\ InitInfoVars /\ InitRunDir /\ InitPrepVars /\ InitVersionVars

NextResult ==
    \/ GenerateResult /\ UNCHANGED <<earlierVars, infoVars, prepVars, versionVars>>
    \/ Httkify /\ UNCHANGED <<earlierVars, infoVars, prepVars, versionVars>>

SpecResult == InitResult /\ [][NextResult]_vars

(***************************************************************************)
(* Claims about the result assembler (checked under SpecResult).           *)
(***************************************************************************)
ResultGenerated == assembled # <<>> /\ assembled.op = "generate_result"

PoscarParsable == poscar_to_structure(rundir.poscar, <<5>>).kind = "value"

\* The null-result part of C12 where the OUTCAR, if there is one, holds an
\* energy: without a CONTCAR and without a parsable POSCAR generate_result
\* returns None.
C12_NullResult ==
    (/\ ResultGenerated /\ ~rundir.contcar.present /\ ~PoscarParsable
     /\ rundir.outcar.present => ReadFinalEnergy(rundir).kind = "value") =>
        assembled.ret.kind = "None"

\* C12: when the directory has no CONTCAR but a parsable POSCAR, the
\* structure of the result generate_result returns is the structure parsed
\* from that POSCAR; when it has neither a CONTCAR nor a parsable POSCAR,
\* generate_result returns None and does not raise.
C12_Fallback ==
    (ResultGenerated /\ ~rundir.contcar.present) =>
        /\ (PoscarParsable /\ assembled.ret.kind = "value") =>
              assembled.ret.result.structure =
                  <<poscar_to_structure(rundir.poscar, <<5>>).struct>>
        /\ ~PoscarParsable => assembled.ret.kind = "None"

\* The fallback as it is: a result returned without a CONTCAR has no
\* structure at all.
C12_FallbackDiscarded ==
    (ResultGenerated /\ ~rundir.contcar.present /\ assembled.ret.kind = "value") =>
        assembled.ret.result.structure = <<>>

Httkified == assembled # <<>> /\ assembled.op = "httkify"

\* httkify came back to its caller: it neither raised nor left through
\* exit().
HttkifyReturned == Httkified /\ assembled.ret.kind \in {"value", "None"}

\* The directory was cleaned and compressed, the manifest was written and
\* the value returned is the one generate_result gives for the directory.
TurnedIntoResult ==
    LET cc == clean_and_compress(assembled.before, assembled.remove)
    IN  /\ rundir = [cc.dir EXCEPT !.manifest = TRUE]
        /\ assembled.cleaned = cc.cleaned
        /\ assembled.manifest_written
        /\ assembled.ret \in generate_result(rundir)

\* C15: on every successful path, both when keypath is given and when
\* keypath is None and the keys are readable at ht.project/keys, httkify
\* cleans and compresses the directory, writes the manifest and returns the
\* result produced by generate_result.
C15_Httkify ==
    (/\ HttkifyReturned
     /\ assembled.keypath = <<>> => StandardKeys \in assembled.before.keys) =>
        TurnedIntoResult

\* What holds: with a keypath httkify does all of it; without one it
\* leaves the directory as it was, writes nothing and returns None.
C15_OnlyWithKeypath ==
    HttkifyReturned =>
        IF assembled.keypath # <<>> THEN TurnedIntoResult
        ELSE /\ rundir = assembled.before
             /\ ~assembled.cleaned /\ ~assembled.manifest_written
             /\ assembled.ret.kind = "None"

(***************************************************************************)
(* The run preparer, prepare_single_run.  The outcome records the files    *)
(* in the order they were written, their text, the handles opened and not  *)
(* closed, and the environment handed to apply_templates.                  *)
(***************************************************************************)
\* "^ *POMASS.*; *ZVAL *= *([^ ]+)" on one line: .* is greedy, so the last
\* semicolon from which the rest matches is taken.
MatchZval(s) ==
    LET a == Literal(s, SkipBlanks(s, 1), <<"P", "O", "M", "A", "S", "S">>)
        rest(j) ==
            LET b == Literal(s, SkipBlanks(s, j + 1), <<"Z", "V", "A", "L">>)
                c == IF b = 0 THEN 0 ELSE Literal(s, SkipBlanks(s, b), <<"=">>)
                g == IF c = 0 THEN 0 ELSE SkipBlanks(s, c)
            IN  [ok |-> c # 0 /\ g <= Len(s), from |-> g]
        semis == IF a = 0 THEN {}
                 ELSE {j \in a..Len(s) : s[j] = ";" /\ rest(j).ok}
    IN  IF semis = {} THEN [matched |-> FALSE, group1 |-> <<>>]
        ELSE LET j == CHOOSE x \in semis : \A y \in semis : y <= x
             IN  [matched |-> TRUE,
                  group1 |-> SubSeq(s, rest(j).from, NonBlankEnd(s, rest(j).from))]

\* float(s) in thousandths, for the tokens PyFloat accepts with at most
\* three decimals.
FloatMilli(s) ==
    LET u == Unsigned(s)
        points == {i \in 1..Len(u) : u[i] = "."}
        p == IF points = {} THEN Len(u) + 1 ELSE CHOOSE i \in points : TRUE
        whole == DigitsVal(SubSeq(u, 1, p - 1))
        frac == SubSeq(u, p + 1, Len(u))
        scale == CASE Len(frac) = 0 -> 1000 [] Len(frac) = 1 -> 100
                   [] Len(frac) = 2 -> 10 [] OTHER -> 1
        milli == whole * 1000 + DigitsVal(Prefix(frac, 3)) * scale
    IN  IF Head(s) = "-" THEN -milli ELSE milli

\* micro_pyawk over the fragment with the one ZVAL rule: the zval callback
\* runs for every matching line, so the last one stays.  zval is <<>>
\* (no 'zval' in results) or <<thousandths>>; err is the exception of
\* float().
RECURSIVE ScanZval(_, _)
ScanZval(results, lines) ==
    IF lines = <<>> \/ results.err # "" THEN results
    ELSE LET m == MatchZval(Head(lines))
         IN  IF ~m.matched THEN ScanZval(results, Tail(lines))
             ELSE IF ~PyFloat(m.group1).ok THEN [results EXCEPT !.err = "ValueError"]
             ELSE ScanZval([results EXCEPT !.zval = <<FloatMilli(m.group1)>>],
                           Tail(lines))

ErrNoZval == <<"v", "a", "s", "p", "_", "i", "f", ".", "p", "r", "e", "p", "a", "r", "e", "_", "s", "i", "m", "p", "l", "e", "_", "s", "t", "a", "t", "i", "c", "_", "r", "u", "n", ":", " ", "C", "o", "u", "l", "d", " ", "n", "o", "t", " ", "r", "e", "a", "d", " ", "Z", "V", "A", "L", " ", "f", "r", "o", "m", " ", "p", "o", "t", "c", "a", "r", " ", "f", "i", "l", "e">>

\* periodictable.atomic_symbol of an atomic number (the assignments of a
\* structure hold atomic numbers).
atomic_symbol(a) == CHOOSE s \in DOMAIN numbers : numbers[s] = a

\* WriteFragment with the new fragment put in front.
WriteFragment_InFront(content, pp) == pp \o content

\* f.write(pp) on the POTCAR writer.
WriteFragment(content, pp) == content \o pp

\* cleveropen succeeded and read() raised: f.close() is never reached.  A
\* node of kind "garbled" is a file that opens and cannot be read.
ReaderLeftOpen(fsys, lib, species) ==
    \E k \in 1..Len(Priorities) :
        /\ exists(fsys, join(lib, species) \o Priorities[k])
        /\ \A j \in 1..(k - 1) : ~exists(fsys, join(lib, species) \o Priorities[j])
        /\ join(join(lib, species) \o Priorities[k], POTCAR) \in DOMAIN fsys
        /\ fsys[join(join(lib, species) \o Priorities[k], POTCAR)].kind = "garbled"

\* The loop over the species, from the i-th on.  acc holds the locals:
\* the text written to the POTCAR writer, spieces_counts, magmoms, nelect
\* (in thousandths), natoms, nmag, the exception raised (<<>> none) and
\* whether a POTCAR reader was left open.
RECURSIVE SpeciesLoop(_, _, _, _)
SpeciesLoop(jb, magmom_per_ion, i, acc) ==
    IF i > Len(jb.struct.assignments) \/ acc.exc # <<>> THEN acc
    ELSE LET count == jb.struct.uc_counts[i]
             symbol == atomic_symbol(jb.struct.assignments[i])
             magmom == magmom_per_ion[i][1]
             failed(pp, lib) ==
                 [acc EXCEPT !.exc = pp.exc,
                             !.reader_open =
                                 /\ lib # None
                                 /\ ReaderLeftOpen(jb.fs, expanduser(lib), symbol)]
             checked(written, results) ==
                 IF results.err # "" THEN [written EXCEPT !.exc = <<"V", "a", "l", "u", "e", "E", "r", "r", "o", "r">>]
                 ELSE IF results.zval = <<>> THEN [written EXCEPT !.exc = ErrNoZval]
                 ELSE SpeciesLoop(jb, magmom_per_ion, i + 1,
                          [written EXCEPT !.nelect = @ + results.zval[1] * count,
                                          !.natoms = @ + count,
                                          !.nmag = @ + count * magmom])
             body(pp) ==
                 IF ~pp.ok
                 THEN failed(pp, ResolveLibrary(jb.poscarspath, jb.cfg, jb.env))
                 ELSE checked([acc EXCEPT
                                  !.potcar = WriteFragment(@, pp.data),
                                  !.spieces_counts = Append(@, count),
                                  !.magmoms = Append(@, IntToStr(count) \o <<"*">> \o IntToStr(magmom))],
                              ScanZval([zval |-> <<>>, err |-> ""], LinesOf(pp.data)))
         IN  body(get_pseudopotential(jb.fs, jb.cfg, jb.env, symbol, jb.poscarspath))

\* The text write_kpoints_file writes (mp and gamma_centered at their
\* defaults).
write_kpoints_file(kpoints, comment) ==
    comment \o <<NL>> \o <<"0", NL>> \o <<"M", "o", "n", "k", "h", "o", "r", "s", "t", "-", "P", "a", "c", "k">> \o <<NL>>
    \o Join(<<SP>>, [i \in 1..Len(kpoints) |-> IntToStr(kpoints[i])]) \o <<NL>>

\* The band counts, from nelect in thousandths, natoms and nmag (all
\* non-negative here), in exact arithmetic.
HalfUp(n) == (n + 1) \div 2

NbandsSpin(nelect, natoms, nmag) ==
    LET e == (6 * nelect + 10000) \div 10000
        m == Max(1, Max(e + HalfUp(natoms), Max(e + HalfUp(nmag), e + 20)))
    IN  m + (m % 2)

NbandsNospin(nelect, natoms, nmag) ==
    LET m == Max(1, Max((nelect + 4000) \div 2000 + HalfUp(natoms),
                        (nelect + 1999) \div 2000 + 20))
    IN  m + (NbandsSpin(nelect, natoms, nmag) % 2)

httk_root == <<"/", "o", "p", "t", "/", "h", "t", "t", "k">>

\* The template directory apply_templates is given.
TemplatePath(template) ==
    IF Len(template) >= 2 /\ SubSeq(template, 1, 2) = <<"t", ":">>
    THEN join(join(join(httk_root, <<"E", "x", "e", "c", "u", "t", "i", "o", "n">>), <<"t", "a", "s", "k", "s", "-", "t", "e", "m", "p", "l", "a", "t", "e", "s">>),
              SubSeq(template, 3, Len(template)))
    ELSE template

Aborted(exc, written, files, open) ==
    [ok |-> FALSE, exc |-> exc, written |-> written, files |-> files,
     open |-> open, template |-> <<>>, data |-> <<>>]

\* prepare_single_run(dirpath, struct, poscarspath, template, overwrite).
\* write_poscar never closes the writer it opens; the POTCAR writer is
\* closed after the loop only.
prepare_single_run(jb) ==
    LET outcome(poscar, kpoints, kptext, loop) ==
            LET three == [n \in {"POSCAR", "KPOINTS", "POTCAR"} |->
                            IF n = "POSCAR" THEN poscar
                            ELSE IF n = "KPOINTS" THEN kptext ELSE loop.potcar]
            IN  IF ~kpoints.ok
                THEN Aborted(kpoints.exc, <<"POSCAR">>, [n \in {"POSCAR"} |-> poscar], {"POSCAR"})
                ELSE IF loop.exc # <<>>
                THEN Aborted(loop.exc, <<"POSCAR", "KPOINTS", "POTCAR">>, three,
                             {"POSCAR", "POTCAR"}
                             \cup (IF loop.reader_open THEN {"POTCAR reader"} ELSE {}))
                ELSE [ok |-> TRUE, exc |-> <<>>,
                      written |-> <<"POSCAR", "KPOINTS", "POTCAR">>,
                      files |-> three,
                      open |-> {"POSCAR"},
                      template |-> <<TemplatePath(jb.template)>>,
                      data |-> [VASP_SPIECES_COUNTS |->
                                    Join(<<SP>>, [i \in 1..Len(loop.spieces_counts) |->
                                                     IntToStr(loop.spieces_counts[i])]),
                                VASP_MAGMOM |-> Join(<<SP>>, loop.magmoms),
                                VASP_NBANDS_SPIN |->
                                    IntToStr(NbandsSpin(loop.nelect, loop.natoms, loop.nmag)),
                                VASP_NBANDS_NOSPIN |->
                                    IntToStr(NbandsNospin(loop.nelect, loop.natoms, loop.nmag))]]
        written(kpoints) ==
            outcome(structure_to_poscar(jb.struct, TRUE, None, TRUE).text,
                    kpoints,
                    write_kpoints_file(kpoints.mesh, structure_to_comment(jb.struct)),
                    SpeciesLoop(jb, get_magnetizations(jb.struct.symbols, 5, 1)[1], 1,
                        [potcar |-> <<>>, spieces_counts |-> <<>>, magmoms |-> <<>>,
                         nelect |-> 0, natoms |-> 0, nmag |-> 0, exc |-> <<>>,
                         reader_open |-> FALSE]))
    IN  IF ~jb.overwrite /\ jb.dir_exists
        THEN Aborted(<<"F", "i", "l", "e", "E", "x", "i", "s", "t", "s", "E", "r", "r", "o", "r">>, <<>>, <<>>, {})
        ELSE written(calculate_kpoints(jb.struct.uc_basis, 20))

\* The pseudopotential library of the run preparer, under ArgPath: Fe as
\* Fe_pv, O plain.  The state of a species' POTCAR is
\*   "good"     a fragment with a POMASS/ZVAL line,
\*   "nozval"   a fragment without ZVAL,
\*   "badzval"  a fragment whose ZVAL is not a number,
\*   "garbled"  a file that opens and cannot be read,
\*   "nofile"   the species directory without a POTCAR,
\*   "missing"  no directory for the species.
PotcarStates == {"good", "nozval", "badzval", "garbled", "nofile", "missing"}

Fragment(species, state) ==
    <<"P", "A", "W", "_", "P", "B", "E", " ">> \o species \o <<NL>>
    \o (CASE state = "good" ->
               <<" ", " ", " ", "P", "O", "M", "A", "S", "S", " ", "=", " ", " ", " ", "5", "5", ".", "8", "4", "7", ";", " ", "Z", "V", "A", "L", " ", " ", " ", "=", " ", " ", " ", " ">> \o
               (IF species = Sym_Fe THEN <<"8", ".", "0", "0", "0">> ELSE <<"6", ".", "0", "0", "0">>) \o <<" ", " ", " ", " ", "m", "a", "s", "s", " ", "a", "n", "d", " ", "v", "a", "l", "e", "n", "z">>
          [] state = "nozval" -> <<" ", " ", " ", "P", "O", "M", "A", "S", "S", " ", "=", " ", " ", " ", "5", "5", ".", "8", "4", "7", ";", " ", "R", "C", "O", "R", "E", " ", " ", "=", " ", " ", " ", " ", "2", ".", "3", "0", "0">>
          [] state = "badzval" -> <<" ", " ", " ", "P", "O", "M", "A", "S", "S", " ", "=", " ", " ", " ", "5", "5", ".", "8", "4", "7", ";", " ", "Z", "V", "A", "L", " ", " ", " ", "=", " ", " ", " ", " ", "e", "i", "g", "h", "t">>)
    \o <<NL>> \o <<" ", "E", "n", "d", " ", "o", "f", " ", "D", "a", "t", "a", "s", "e", "t">> \o <<NL>>

SpeciesDirName(species) == IF species = Sym_Fe THEN Sym_Fe \o <<"_", "p", "v">> ELSE species

PrepLibrary(states) ==
    LET present == {sp \in DOMAIN states : states[sp] # "missing"}
        withfile == {sp \in present : states[sp] # "nofile"}
        dirOf(sp) == join(ArgPath, SpeciesDirName(sp))
        fileOf(sp) == join(dirOf(sp), POTCAR)
        species(p) == CHOOSE sp \in withfile : fileOf(sp) = p
    IN  [p \in {ArgPath} \cup {dirOf(sp) : sp \in present}
                \cup {fileOf(sp) : sp \in withfile} |->
            IF p \in {fileOf(sp) : sp \in withfile}
            THEN (IF states[species(p)] = "garbled" THEN [kind |-> "garbled"]
                  ELSE [kind |-> "file",
                        data |-> Fragment(species(p), states[species(p)])])
            ELSE Directory]

\* The structures: one or two species, the unit cells of Bases (one of
\* them singular, one with a negative determinant).
SpeciesLists == {<<Sym_Fe>>, <<Sym_Fe, Sym_O>>, <<Sym_O, Sym_Fe>>}

CountsOf(species) == [i \in 1..Len(species) |-> IF species[i] = Sym_O THEN 2 ELSE 1]

RunStruct(species, b) ==
    LET counts == CountsOf(species)
        coords == [k \in 1..Sum(counts) |-> <<<<1, k + 1>>, <<1, 2>>, <<0, 1>>>>]
        cell == [uc_basis |-> b, uc_reduced_coords |-> coords,
                 uc_volume |-> <<8, 1>>, uc_counts |-> counts]
    IN  [uc_basis |-> b, uc_reduced_coords |-> coords, uc_volume |-> <<8, 1>>,
         uc_counts |-> counts, pc |-> cell, symbols |-> species,
         assignments |-> [i \in 1..Len(species) |-> numbers[species[i]]],
         formula |-> Concat(species), hexhash |-> <<"a", "1">>, tags |-> <<>>,
         has_rc_repr |-> TRUE, has_uc_repr |-> TRUE]

DefaultTemplate == <<"t", ":", "/", "v", "a", "s", "p", "/", "s", "i", "n", "g", "l", "e", "/", "s", "t", "a", "t", "i", "c">>

InitJob ==
    /\ \E species \in SpeciesLists, b \in Bases,
          fe \in PotcarStates, o \in {"good", "nozval"},
          poscarspath \in {None, ArgPath}, overwrite \in BOOLEAN,
          dir_exists \in BOOLEAN, template \in {DefaultTemplate, <<"m", "y", "t", "e", "m", "p", "l", "a", "t", "e">>} :
         job = [struct |-> RunStruct(species, b),
                potcars |-> [sp \in {Sym_Fe, Sym_O} |-> IF sp = Sym_Fe THEN fe ELSE o],
                fs |-> PrepLibrary([sp \in {Sym_Fe, Sym_O} |-> IF sp = Sym_Fe THEN fe ELSE o]),
                cfg |-> <<>>, env |-> <<>>,
                poscarspath |-> poscarspath, overwrite |-> overwrite,
                dir_exists |-> dir_exists, template |-> template]
    /\ prepared = <<>>

\* prepared = <<>> : prepare_single_run has not been called.
PrepareSingleRun ==
    /\ prepared = <<>>
    /\ prepared' = prepare_single_run(job)
    /\ UNCHANGED job

InitPrep ==
    /\ InitEarlierVars
    /\ InitInfoVars /\ InitResultVars /\ InitJob /\ InitVersionVars

NextPrep ==
    \/ PrepareSingleRun /\ UNCHANGED <<earlierVars, infoVars, resultVars, versionVars>>

SpecPrep == InitPrep /\ [][NextPrep]_vars

(***************************************************************************)
(* Claims about the run preparer (checked under SpecPrep).                 *)
(***************************************************************************)
Prepared == prepared # <<>>

\* os.mkdir or mkdir_p succeeds.
Creatable == job.overwrite \/ ~job.dir_exists

NonSingular == Det3(job.struct.uc_basis) # 0

DeclaredSpecies == job.struct.symbols

\* The species has a readable POTCAR in the library the call names.
Resolves(sp) ==
    job.poscarspath # None /\ job.potcars[sp] \in {"good", "nozval", "badzval"}

AllResolve == \A i \in 1..Len(DeclaredSpecies) : Resolves(DeclaredSpecies[i])

AllIn(states) ==
    \A i \in 1..Len(DeclaredSpecies) : job.potcars[DeclaredSpecies[i]] \in states

\* The contents of the species' POTCARs, in declaration order.
ExpectedPotcar ==
    Concat([i \in 1..Len(DeclaredSpecies) |->
               Fragment(DeclaredSpecies[i], job.potcars[DeclaredSpecies[i]])])

WroteAllThree ==
    /\ prepared.ok
    /\ prepared.written = <<"POSCAR", "KPOINTS", "POTCAR">>
    /\ prepared.files["POTCAR"] = ExpectedPotcar

FailedOnZval ==
    ~prepared.ok /\ prepared.exc = ErrNoZval /\ prepared.template = <<>>

\* C13 as stated, for every structure and directory: when all species
\* resolve to pseudopotentials with a ZVAL field, POSCAR, KPOINTS and POTCAR
\* are written in this order and POTCAR is the concatenation of the
\* fragments in declaration order; when a fragment lacks the field the run
\* fails with the missing-ZVAL error and the template is not applied.
C13_AsClaimed ==
    Prepared =>
        /\ (AllResolve /\ AllIn({"good", "badzval"})) => WroteAllThree
        /\ (AllResolve /\ ~AllIn({"good", "badzval"})) => FailedOnZval

\* C13: for every structure with a non-singular cell, in a directory that
\* can be created: when all species resolve to pseudopotentials with a
\* numeric ZVAL field, prepare_single_run writes POSCAR, then KPOINTS, then
\* a POTCAR that is exactly the concatenation of the resolved fragments in
\* species declaration order, and applies the template; when some fragment
\* has no ZVAL field and the others a numeric one, the run fails with the
\* missing-ZVAL error and the template is never applied.
C13_RunPrepared ==
    (Prepared /\ Creatable /\ NonSingular /\ AllResolve) =>
        /\ AllIn({"good"}) => (WroteAllThree /\ prepared.template # <<>>)
        /\ (AllIn({"good", "nozval"}) /\ ~AllIn({"good"})) => FailedOnZval

\* Witness of C13: a run for O and Fe, in this order, was prepared and its
\* POTCAR holds the fragment of O followed by the fragment of Fe.
C13_Witness ==
    /\ Prepared /\ prepared.ok
    /\ DeclaredSpecies = <<Sym_O, Sym_Fe>>
    /\ prepared.files["POTCAR"] = Fragment(Sym_O, "good") \o Fragment(Sym_Fe, "good")

\* The failing case of C13 happens as well: a run for Fe and O stopped on
\* the missing ZVAL of the second fragment.
C13_WitnessFailure ==
    /\ Prepared /\ FailedOnZval
    /\ DeclaredSpecies = <<Sym_Fe, Sym_O>> /\ job.potcars[Sym_O] = "nozval"

\* C16: every handle opened by prepare_single_run (the POSCAR, KPOINTS and
\* POTCAR writers) and by get_pseudopotential (the POTCAR reader) is closed
\* when the operation returns and when it aborts: no end state has a handle
\* still open.
C16_HandlesReleased == Prepared => prepared.open = {}

\* The handles as they are left: the POSCAR writer always, the POTCAR
\* writer on every abort inside the species loop, the POTCAR reader when
\* its read raised.
C16_HandlesLeft ==
    Prepared =>
        IF ~Creatable THEN prepared.open = {}
        ELSE IF prepared.ok \/ ~NonSingular THEN prepared.open = {"POSCAR"}
        ELSE /\ {"POSCAR", "POTCAR"} \subseteq prepared.open
             /\ "POTCAR reader" \in prepared.open <=>
                    /\ job.poscarspath # None
                    /\ \E i \in 1..Len(DeclaredSpecies) :
                          /\ job.potcars[DeclaredSpecies[i]] = "garbled"
                          /\ \A j \in 1..(i - 1) : job.potcars[DeclaredSpecies[j]] = "good"

(***************************************************************************)
(* The version lookup of src/httk/config/config.py.  The installation is   *)
(* what read_config and determine_version_data see: distdata.py ("absent", *)
(* "unreadable" or "read" into the section [distdata] with some of its     *)
(* options), the option [general]/bypass_git_version_lookup, the .git      *)
(* directory, and what git answers.                                        *)
(***************************************************************************)
_default_copyright_note == <<"(", "c", ")", " ", "2", "0", "1", "2", " ", "-", " ", "2", "0", "1", "8", ",", " ", "R", "i", "c", "k", "a", "r", "d", " ", "A", "r", "m", "i", "e", "n", "t", "o", ",", " ", "e", "t", " ", "a", "l", ".">>

Unknown == <<"u", "n", "k", "n", "o", "w", "n">>

\* str.strip('"')
RECURSIVE StripQuotes(_)
StripQuotes(s) ==
    IF s # <<>> /\ Head(s) = "\"" THEN StripQuotes(Tail(s))
    ELSE IF s # <<>> /\ s[Len(s)] = "\"" THEN StripQuotes(SubSeq(s, 1, Len(s) - 1))
    ELSE s

\* str.endswith
EndsWith(s, suffix) ==
    Len(suffix) <= Len(s) /\ SubSeq(s, Len(s) - Len(suffix) + 1, Len(s)) = suffix

\* str.replace(old, new, 1): the first occurrence only.
ReplaceFirst(s, old, new) ==
    LET at == {i \in 1..Len(s) : Literal(s, i, old) # 0}
    IN  IF at = {} THEN s
        ELSE LET i == CHOOSE x \in at : \A y \in at : x <= y
             IN  SubSeq(s, 1, i - 1) \o new \o SubSeq(s, i + Len(old), Len(s))

\* "%02d" of a number below 100.
TwoDigits(n) == IF n < 10 THEN <<"0">> \o NatToStr(n) ELSE NatToStr(n)

\* "%d-%02d-%02d" % (year, month, day)
DateString(d) ==
    NatToStr(d.year) \o <<"-">> \o TwoDigits(d.month) \o <<"-">> \o TwoDigits(d.day)

\* The three config.get calls on [distdata], in order, inside one try:
\* the first missing option ends the block and leaves the later
\* identifiers unbound.  A field is <<>> (unbound, or None for the
\* version) or <<text>>.
ReadDistdata(inst) ==
    LET has(o) == inst.distdata = "read" /\ o \in DOMAIN inst.options
        val(o) == <<StripQuotes(inst.options[o])>>
    IN  IF inst.distdata = "absent" \/ ~has("version")
        THEN [version |-> <<>>, version_date |-> <<>>, copyright_note |-> <<>>]
        ELSE IF ~has("version_date")
        THEN [version |-> val("version"), version_date |-> <<>>, copyright_note |-> <<>>]
        ELSE IF ~has("copyright_note")
        THEN [version |-> val("version"), version_date |-> val("version_date"),
              copyright_note |-> <<>>]
        ELSE [version |-> val("version"), version_date |-> val("version_date"),
              copyright_note |-> val("copyright_note")]

\* config.getboolean('general', 'bypass_git_version_lookup')
GetBypass(inst) ==
    CASE inst.general = "nosection" -> [ok |-> FALSE, err |-> "NoSectionError", val |-> FALSE]
      [] inst.general = "nooption" -> [ok |-> FALSE, err |-> "NoOptionError", val |-> FALSE]
      [] inst.general = "garbage" -> [ok |-> FALSE, err |-> "ValueError", val |-> FALSE]
      [] OTHER -> [ok |-> TRUE, err |-> "", val |-> inst.general = "true"]

Sentinels ==
    [version |-> <<Unknown>>, version_date |-> <<Unknown>>,
     copyright_note |-> <<_default_copyright_note>>]

\* The try block around git.  check_output returns bytes under Python 3,
\* where endswith('-dirty') with a str argument is a TypeError; every
\* exception in the block gives the sentinels.
GitLookup(inst) ==
    IF inst.git = <<>> \/ inst.python = 3 THEN Sentinels
    ELSE LET described == Strip(inst.git[1])
             when == IF EndsWith(described, <<"-", "d", "i", "r", "t", "y">>) THEN inst.now ELSE inst.committed
             v1 == Tail(described)
             v2 == ReplaceFirst(v1, <<"-">>, <<".", "d", "e", "v">>)
             v3 == ReplaceFirst(v2, <<"-">>, <<"+">>)
             v4 == IF EndsWith(v3, <<"-", "d", "i", "r", "t", "y">>) THEN ReplaceFirst(v3, <<"-", "d", "i", "r", "t", "y">>, <<".", "d">>) ELSE v3
         IN  [version |-> <<v4>>,
              version_date |-> <<DateString(when)>>,
              copyright_note |-> <<<<"(", "c", ")", " ", "2", "0", "1", "2", " ", "-", " ">> \o NatToStr(when.year)>>]

\* determine_version_data(): the dictionary returned, or the exception.
\* Building the dictionary reads the three locals; one that was never
\* bound is an UnboundLocalError.
determine_version_data(inst) ==
    LET dist == ReadDistdata(inst)
        bypass == GetBypass(inst)
        found == IF dist.version # <<>> THEN dist
                 ELSE IF ~bypass.val /\ inst.git_dir THEN GitLookup(inst)
                 ELSE Sentinels
    IN  IF dist.version = <<>> /\ ~bypass.ok THEN Raised(bypass.err)
        ELSE IF found.version_date = <<>> \/ found.copyright_note = <<>>
        THEN Raised("UnboundLocalError")
        ELSE [kind |-> "value",
              httk_version |-> found.version[1],
              httk_version_date |-> found.version_date[1],
              httk_copyright_note |-> found.copyright_note[1]]

DistdataOptions ==
    [o \in {"version", "version_date", "copyright_note"} |->
        CASE o = "version" -> <<"\"", "1", ".", "3", ".", "0", "\"">>
          [] o = "version_date" -> <<"\"", "2", "0", "1", "8", "-", "0", "6", "-", "0", "1", "\"">>
          [] o = "copyright_note" -> <<"\"", "(", "c", ")", " ", "2", "0", "1", "2", " ", "-", " ", "2", "0", "1", "8", ",", " ", "t", "h", "e", " ", "a", "u", "t", "h", "o", "r", "s", "\"">>]

\* What git describe --dirty --always prints (<<>>: git fails).
GitAnswers ==
    {<<>>, <<<<"v", "1", ".", "4", ".", "2">> \o <<NL>>>>, <<<<"v", "1", ".", "4", ".", "2", "-", "3", "-", "g", "a", "b", "c", "1", "2", "3", "4">> \o <<NL>>>>,
     <<<<"v", "1", ".", "4", ".", "2", "-", "d", "i", "r", "t", "y">> \o <<NL>>>>, <<<<"v", "1", ".", "4", ".", "2", "-", "3", "-", "g", "a", "b", "c", "1", "2", "3", "4", "-", "d", "i", "r", "t", "y">> \o <<NL>>>>}

Installations ==
    [distdata : {"absent", "unreadable"}, options : {<<>>},
     general : {"nosection", "nooption", "true", "false", "garbage"},
     git_dir : BOOLEAN, git : GitAnswers, python : {2, 3},
     committed : {[year |-> 2024, month |-> 3, day |-> 7]},
     now : {[year |-> 2026, month |-> 11, day |-> 23]}]
    \cup
    {[distdata |-> "read",
      options |-> [o \in present |-> DistdataOptions[o]],
      general |-> g, git_dir |-> gd, git |-> ga, python |-> py,
      committed |-> [year |-> 2024, month |-> 3, day |-> 7],
      now |-> [year |-> 2026, month |-> 11, day |-> 23]] :
        present \in SUBSET DOMAIN DistdataOptions,
        g \in {"nosection", "nooption", "true", "false", "garbage"},
        gd \in BOOLEAN, ga \in GitAnswers, py \in {2, 3}}

InitInstall ==
    /\ install \in Installations
    /\ version_data = <<>>

\* version_data = <<>> : determine_version_data has not been called.
DetermineVersionData ==
    /\ version_data = <<>>
    /\ version_data' = determine_version_data(install)
    /\ UNCHANGED install

InitVersion ==
    /\ InitEarlierVars
    /\ InitInfoVars /\ InitResultVars /\ InitPrepVars /\ InitInstall

NextVersion ==
    \/ DetermineVersionData /\ UNCHANGED <<earlierVars, infoVars, resultVars, prepVars>>

SpecVersion == InitVersion /\ [][NextVersion]_vars

(***************************************************************************)
(* Claim about the version lookup (checked under SpecVersion).             *)
(***************************************************************************)
Determined == version_data # <<>>

\* C14: for every combination of distdata.py present or absent, each of
\* its options present or absent, the [general] section and its
\* bypass_git_version_lookup option present or absent, and git succeeding
\* or failing, determine_version_data returns a record in which
\* httk_version, httk_version_date and httk_copyright_note are all set.
C14_VersionDegrades ==
    (Determined /\ install.general # "garbage") => version_data.kind = "value"

\* What holds: the lookup returns a record when distdata.py gives all three
\* options, and when it gives no version and the bypass option can be read;
\* a failing git, a missing .git and a bypassed lookup give the sentinels.
C14_WhenItReturns ==
    Determined =>
        LET has(o) == install.distdata = "read" /\ o \in DOMAIN install.options
        IN  /\ version_data.kind = "value" <=>
                  IF has("version") THEN has("version_date") /\ has("copyright_note")
                  ELSE install.general \in {"true", "false"}
            /\ (/\ version_data.kind = "value" /\ ~has("version")
                /\ (install.general = "true" \/ ~install.git_dir \/ install.git = <<>>)) =>
                   /\ version_data.httk_version = Unknown
                   /\ version_data.httk_version_date = Unknown
                   /\ version_data.httk_copyright_note = _default_copyright_note

====
